---- MODULE Spec2Model ----
(***************************************************************************)
(* Trust boundary of the beads daemon: the per-client sliding-window rate  *)
(* limiter, the scoped injection of federation credentials into the        *)
(* process environment, and daemon authentication with request signing.    *)
(* Each component has its own specification over the shared variable list; *)
(* a component's specification leaves the other components' variables at   *)
(* their initial values.                                                    *)
(***************************************************************************)
EXTENDS Integers, Sequences, FiniteSets, TLC

VARIABLES
    \* ---- RateLimiter (rate limiter source: type RateLimiter, clientState)
    clock,          \* time.Now(), in units of 5 minutes
    maxRequests,    \* rl.maxRequests
    windowDuration, \* rl.windowDuration, in the same unit
    requests,       \* rl.requests: map clientID -> [requests, lastSeen]
    lastCleanup,    \* rl.lastCleanup
    rlMu,           \* rl.mu: "free" or the goroutine holding it
    allowPc,        \* position of each goroutine calling Allow
    allowNow,       \* the local `now` of each Allow call
    allowClient,    \* the clientID argument of each Allow call
    allowRet,       \* result of the last finished Allow call of each goroutine
    nextTick,       \* next firing time of the cleanupLoop ticker
    bgPc,           \* position of the cleanupLoop goroutine
    bgNow,          \* the local `now` of cleanupLoop
    calls,          \* history: number of Allow calls started
    admitted,       \* history: admitted[c][t] = number of Allow(c) admitted with now = t
    rlReaders,      \* rl.mu: number of holders of the read lock
    statsPc,        \* position of the goroutine calling GetStats
    statsActive,    \* the local activeClients of GetStats
    statsOut,       \* the map returned by the last GetStats call; <<>> before any
    untouched,      \* history: the clients with no Allow since the last Reset
    allowFirst,     \* history: the Allow call of a goroutine is the first of its client since a Reset
    \* ---- federation credentials (credentials source: federationEnvMutex, withPeerCredentials)
    peers,          \* table federation_peers: name -> [username, password, lastSync]
    env,            \* process environment: the credential variables that are set
    fedMu,          \* federationEnvMutex: "free" or the goroutine holding it
    fedPc,          \* position of each goroutine in withPeerCredentials
    fedOp,          \* "push" (PushWithCredentials) or "pull" (PullWithCredentials)
    fedName,        \* the peerName argument
    fedPeer,        \* the local `peer`: <<>> for nil, else <<record>>
    fedErr,         \* the local `err`: result of fn, then of the call
    wipeBuf,        \* the buffer []byte(peer.Password) handed to SecureWipe
    fedCalls,       \* history: number of withPeerCredentials calls started
    \* ---- AuthManager (auth.go: type AuthManager; the directory of the socket)
    tokenFile,      \* the file "daemon-auth-token": <<>> if absent, else <<content>>
    amAlive,        \* a daemon instance is running with a constructed AuthManager
    amSecretKey,    \* am.secretKey, also the key of am.signer
    amToken,        \* am.token
    amStartTime,    \* am.startTime
    starts,         \* history: number of NewAuthManager calls
    keysGenerated,  \* history: number of secrets drawn from crypto/rand
    cleaned,        \* history: Cleanup was called since the last NewAuthManager
    authReq,        \* the request of the last ValidateRequestAuth / Sign / Verify call
    authRes,        \* the error returned by the last ValidateRequestAuth call
    gotToken,       \* the value returned by the last GetToken call
    sigOut,         \* the signature returned by the last Sign call
    verRes,         \* the result of the last ValidateToken / Verify call
    \* ---- RequestSigner (signer source: type RequestSigner)
    rsSecretKey,    \* rs.secretKey
    signedReq,      \* per slot: <<>> or <<[req, ts]>>, the arguments of a SignRequest call
    signedSig,      \* per slot: the signature that call returned
    verifyOf,       \* <<i, j>>: VerifyRequest was called on slot j's arguments with slot i's signature
    verifyRes,      \* the result of that VerifyRequest call
    respIn,         \* per slot: <<>> or <<[resp, ts]>>, the arguments of a SignResponse call
    respSig,        \* per slot: the signature that call returned
    respVerOf,      \* <<i, j>>: VerifyResponse was called on slot j's arguments with slot i's signature
    respVerRes,     \* the result of that VerifyResponse call
    \* ---- DoltStore credential encryption (credentials source: type DoltStore)
    stDbPath,       \* s.dbPath
    stKeyring,      \* s.keyring: <<>> for nil, else <<masterKey>> of its FileKeyring
    pwIn,           \* <<>> or <<password>>: the argument of the last encryptPassword call
    encrypted,      \* the ciphertext that call returned
    decOut,         \* <<>> or <<[pw, err]>>: the result of decryptPassword(encrypted)
    encKeyring,     \* history: s.keyring at the last encryptPassword call
    tamper,         \* history: how the stored ciphertext was altered since it was sealed
    \* ---- FileKeyring (keyring source: type FileKeyring; the keyring files on disk)
    keyFiles,       \* the keyring files that exist
    kr,             \* per vault: <<>> or <<[keyFile, dbPath, created, masterKey]>>
    gk,             \* per call slot: <<>> or <<[dbPath, created, service, user, key]>>, a GetKey call
    held,           \* <<>> or <<[vault, shared, key]>>: a buffer GetKey returned, kept by its caller
    krErr,          \* <<>> or <<[op, service, user, keyData, err]>>: the last StoreKey / DeleteKey call
    \* ---- validatePeerName (credentials source)
    peerName,       \* the name argument
    vpnErr,         \* the error validatePeerName returned for it
    \* ---- DoltStore federation peers (credentials source: AddFederationPeer ...)
    federation_peers, \* table federation_peers: its rows, in insertion order
    remotes,        \* the Dolt remotes: name -> <<>> or <<url>>
    fpCall,         \* the last call on the peer store: its arguments and results
    written,        \* history: name -> <<>> or <<peer>>, the peer of the last upsert of the row
    \* ---- ValidateRequestSize (size_limits.go)
    szReq,          \* the request: the length in bytes of each of its fields
    szErr,          \* the error ValidateRequestSize returned for it
    \* ---- SecureWipe (keyring source)
    wpBuf,          \* the caller's memory: [nil, pre, data, post], data the slice handed over
    wpBefore,       \* history: <<>> or <<that memory when SecureWipe was called>>
    wpErr,          \* "none" before the call, then "returned" or "panic"
    \* ---- resubmission of requests to one AuthManager (auth.go)
    wallClock,      \* the current time, time.Now()
    rpFirst,        \* history: <<>> or <<[inst, now, req, err]>>, a validation kept for comparison
    rpLast,         \* <<>> or <<[inst, now, req, err]>>: the last ValidateRequestAuth call
    rpOther         \* history: another request was validated since rpFirst

statsLocals == <<rlReaders, statsPc, statsActive, statsOut>>
statVars == <<statsLocals, untouched, allowFirst>>
rlVars == <<clock, maxRequests, windowDuration, requests, lastCleanup, rlMu,
            allowPc, allowNow, allowClient, allowRet, nextTick, bgPc, bgNow,
            calls, admitted, statVars>>

rlConfig == <<maxRequests, windowDuration>>
allowLocals == <<allowPc, allowNow, allowClient>>
bgLocals == <<nextTick, bgPc, bgNow>>

fedVars == <<peers, env, fedMu, fedPc, fedOp, fedName, fedPeer, fedErr,
             wipeBuf, fedCalls>>
fedLocals == <<fedOp, fedName, fedPeer>>

authVars == <<tokenFile, amAlive, amSecretKey, amToken, amStartTime, starts,
              keysGenerated, cleaned, authReq, authRes, gotToken, sigOut, verRes>>
amFields == <<amAlive, amSecretKey, amToken, amStartTime>>

signVars == <<rsSecretKey, signedReq, signedSig, verifyOf, verifyRes,
              respIn, respSig, respVerOf, respVerRes>>
respVars == <<respIn, respSig, respVerOf, respVerRes>>
reqVars == <<signedReq, signedSig, verifyOf, verifyRes>>

\* the variables of the components specified as functions of their arguments
credVars == <<stDbPath, stKeyring, pwIn, encrypted, decOut, encKeyring, tamper>>
vaultVars == <<keyFiles, kr, gk, held, krErr>>
nameVars == <<peerName, vpnErr>>
peerVars == <<federation_peers, remotes, fpCall, written>>
sizeVars == <<szReq, szErr>>
wipeVars == <<wpBuf, wpBefore, wpErr>>
replayVars == <<wallClock, rpFirst, rpLast, rpOther>>
fnVars == <<signVars, credVars, vaultVars, nameVars, peerVars, sizeVars, wipeVars,
           replayVars>>

\* what a call of one of these components leaves alone
notSign == <<rlVars, fedVars, authVars, credVars, vaultVars, nameVars, peerVars, sizeVars,
            wipeVars, replayVars>>
notCred == <<rlVars, fedVars, authVars, signVars, vaultVars, nameVars, peerVars, sizeVars,
            wipeVars, replayVars>>
notVault == <<rlVars, fedVars, authVars, signVars, credVars, nameVars, peerVars, sizeVars,
            wipeVars, replayVars>>
notName == <<rlVars, fedVars, authVars, signVars, credVars, vaultVars, peerVars, sizeVars,
            wipeVars, replayVars>>
notPeers == <<rlVars, fedVars, authVars, signVars, credVars, vaultVars, nameVars, sizeVars,
            wipeVars, replayVars>>
notSize == <<rlVars, fedVars, authVars, signVars, credVars, vaultVars, nameVars, peerVars,
            wipeVars, replayVars>>
notWipe == <<rlVars, fedVars, authVars, signVars, credVars, vaultVars, nameVars, peerVars,
            sizeVars, replayVars>>

vars == <<rlVars, fedVars, authVars, fnVars>>

----------------------------------------------------------------------------
(* Bounds *)
MaxTime == 2
MaxCalls == 4
MaxFedCalls == 3
MaxStarts == 3
\* longest run of the letter a in a peer name tried
MaxRun == 65
\* the longest array of bytes a caller of SecureWipe holds
MaxBuf == 3
\* the seconds that pass while requests are submitted again
MaxNow == 3

Times == 0..MaxTime
Clients == {"c1", "c2"}
Callers == {"g1", "g2"}
\* the configurations passed to NewRateLimiter: the window is at most, or
\* longer than, the cleanup interval
RLConfigs == {[maxRequests |-> 2, windowDuration |-> 1],
              [maxRequests |-> 1, windowDuration |-> 3]}

(* cleanupInterval: 5 * time.Minute; time is counted in units of 5 minutes *)
CleanupInterval == 1

----------------------------------------------------------------------------
(* Federation credentials *)

Goroutines == {"f1", "f2"}
PeerNames == {"east", "west", "north", "ghost"}
UserVar == "DOLT_REMOTE_USER"
PassVar == "DOLT_REMOTE_PASSWORD"

\* rows of federation_peers: a peer with username and password, one with a
\* username only, one without credentials; "ghost" has no row
StoredPeers ==
    [east  |-> [username |-> <<"e">>, password |-> <<"p", "w">>, lastSync |-> 0],
     west  |-> [username |-> <<"w">>, password |-> <<>>, lastSync |-> 0],
     north |-> [username |-> <<>>, password |-> <<>>, lastSync |-> 0]]

\* a wipe whose loop stops one byte early
SecureWipeButLast(data) ==
    [i \in DOMAIN data |-> IF i = Len(data) THEN data[i] ELSE 0]

\* SecureWipe: overwrite every byte with zero, in place
SecureWipe(data) == [i \in DOMAIN data |-> 0]

\* os.Setenv / os.Unsetenv
Setenv(e, k, v) == [x \in DOMAIN e \cup {k} |-> IF x = k THEN v ELSE e[x]]
Unsetenv(e, k) == [x \in DOMAIN e \ {k} |-> e[x]]

\* setFederationCredentials: set each variable whose value is not empty
setFederationCredentials(e, username, password) ==
    LET e1 == IF username # <<>> THEN Setenv(e, UserVar, username) ELSE e
    IN IF password # <<>> THEN Setenv(e1, PassVar, password) ELSE e1

\* the cleanup function returned by setFederationCredentials
cleanupCredentials(e) == Unsetenv(Unsetenv(e, UserVar), PassVar)

\* withPeerCredentials: peer != nil && (peer.Username != "" || peer.Password != "")
hasCredentials(p) ==
    p # <<>> /\ (p[1].username # <<>> \/ p[1].password # <<>>)

\* federationEnvMutex.Lock() can proceed
FedMuFree == fedMu = "free"

\* the state of the federation variables before any call
FedIdle ==
    /\ peers = StoredPeers
    /\ env = <<>>
    /\ fedMu = "free"
    /\ fedPc = [g \in Goroutines |-> "idle"]
    /\ fedOp = [g \in Goroutines |-> "push"]
    /\ fedName = [g \in Goroutines |-> "east"]
    /\ fedPeer = [g \in Goroutines |-> <<>>]
    /\ fedErr = [g \in Goroutines |-> "none"]
    /\ wipeBuf = [g \in Goroutines |-> <<>>]
    /\ fedCalls = 0

\* withPeerCredentials: GetFederationPeer succeeds (a row, or nil for no row)
FedLookup(g, op, name) ==
    /\ fedPc[g] = "idle"
    /\ fedCalls < MaxFedCalls
    /\ fedCalls' = fedCalls + 1
    /\ LET peer == IF name \in DOMAIN peers THEN <<peers[name]>> ELSE <<>>
       IN /\ fedPeer' = [fedPeer EXCEPT ![g] = peer]
          /\ fedPc' = [fedPc EXCEPT ![g] =
                          IF hasCredentials(peer) THEN "lock" ELSE "fn"]
    /\ fedOp' = [fedOp EXCEPT ![g] = op]
    /\ fedName' = [fedName EXCEPT ![g] = name]
    /\ fedErr' = [fedErr EXCEPT ![g] = "none"]
    /\ wipeBuf' = [wipeBuf EXCEPT ![g] = <<>>]
    /\ UNCHANGED <<fnVars, rlVars, authVars, peers, env, fedMu>>

\* withPeerCredentials: GetFederationPeer fails, "failed to get peer credentials"
FedLookupFail(g, op, name) ==
    /\ fedPc[g] = "idle"
    /\ fedCalls < MaxFedCalls
    /\ fedCalls' = fedCalls + 1
    /\ fedPeer' = [fedPeer EXCEPT ![g] = <<>>]
    /\ fedOp' = [fedOp EXCEPT ![g] = op]
    /\ fedName' = [fedName EXCEPT ![g] = name]
    /\ fedErr' = [fedErr EXCEPT ![g] = "lookup"]
    /\ wipeBuf' = [wipeBuf EXCEPT ![g] = <<>>]
    /\ UNCHANGED <<fnVars, rlVars, authVars, peers, env, fedMu, fedPc>>

PushWithCredentials(g, name) ==
    FedLookup(g, "push", name) \/ FedLookupFail(g, "push", name)

PullWithCredentials(g, name) ==
    FedLookup(g, "pull", name) \/ FedLookupFail(g, "pull", name)

\* withPeerCredentials: federationEnvMutex.Lock()
FedLock(g) ==
    /\ fedPc[g] = "lock"
    /\ FedMuFree
    /\ fedMu' = g
    /\ fedPc' = [fedPc EXCEPT ![g] = "setenv"]
    /\ UNCHANGED <<fnVars, rlVars, authVars, peers, env, fedLocals, fedErr, wipeBuf, fedCalls>>

\* withPeerCredentials: cleanup := setFederationCredentials(...); defer ...
FedSetEnv(g) ==
    /\ fedPc[g] = "setenv"
    /\ env' = setFederationCredentials(env, fedPeer[g][1].username,
                                       fedPeer[g][1].password)
    /\ fedPc' = [fedPc EXCEPT ![g] = "fn"]
    /\ UNCHANGED <<fnVars, rlVars, authVars, peers, fedMu, fedLocals, fedErr, wipeBuf, fedCalls>>

\* withPeerCredentials without the deferred cleanup on the error path
FedFnEndNoDefer(g, ok) ==
    /\ fedPc[g] = "fn"
    /\ fedErr' = [fedErr EXCEPT ![g] = IF ok THEN "nil" ELSE "error"]
    /\ fedPc' = [fedPc EXCEPT ![g] =
                    IF ok /\ fedPeer[g] # <<>> THEN "sync"
                    ELSE IF ok /\ fedMu = g THEN "cleanup"
                    ELSE "idle"]
    /\ UNCHANGED <<fnVars, rlVars, authVars, peers, env, fedMu, fedLocals, wipeBuf, fedCalls>>

\* a withPeerCredentials that updates the last sync time whatever fn returned
FedFnEndSyncOnError(g, ok) ==
    /\ fedPc[g] = "fn"
    /\ fedErr' = [fedErr EXCEPT ![g] = IF ok THEN "nil" ELSE "error"]
    /\ fedPc' = [fedPc EXCEPT ![g] = IF fedPeer[g] # <<>> THEN "sync"
                                     ELSE IF fedMu = g THEN "cleanup"
                                     ELSE "idle"]
    /\ UNCHANGED <<fnVars, rlVars, authVars, peers, env, fedMu, fedLocals, wipeBuf, fedCalls>>

\* withPeerCredentials: err = fn() returns, with or without an error
FedFnEnd(g, ok) ==
    /\ fedPc[g] = "fn"
    /\ fedErr' = [fedErr EXCEPT ![g] = IF ok THEN "nil" ELSE "error"]
    /\ fedPc' = [fedPc EXCEPT ![g] =
                    IF ok /\ fedPeer[g] # <<>> THEN "sync"
                    ELSE IF fedMu = g THEN "cleanup"
                    ELSE "idle"]
    /\ UNCHANGED <<fnVars, rlVars, authVars, peers, env, fedMu, fedLocals, wipeBuf, fedCalls>>

\* UpdatePeerLastSync: UPDATE ... SET last_sync = CURRENT_TIMESTAMP WHERE name = ?
UpdatePeerLastSync(table, name, ok) ==
    IF ok /\ name \in DOMAIN table
    THEN [table EXCEPT ![name].lastSync = @ + 1]
    ELSE table

\* withPeerCredentials: "Update last sync time on success"; the statement of
\* UpdatePeerLastSync succeeds or fails, and its error is dropped
FedUpdateSync(g) ==
    /\ fedPc[g] = "sync"
    /\ \E ok \in BOOLEAN : peers' = UpdatePeerLastSync(peers, fedName[g], ok)
    /\ fedPc' = [fedPc EXCEPT ![g] = IF fedMu = g THEN "cleanup" ELSE "idle"]
    /\ UNCHANGED <<fnVars, rlVars, authVars, env, fedMu, fedLocals, fedErr, wipeBuf, fedCalls>>

\* a deferred function that clears only DOLT_REMOTE_USER
FedCleanupUserOnly(g) ==
    /\ fedPc[g] = "cleanup"
    /\ env' = Unsetenv(env, UserVar)
    /\ fedPc' = [fedPc EXCEPT ![g] = "wipe"]
    /\ UNCHANGED <<fnVars, rlVars, authVars, peers, fedMu, fedLocals, fedErr, wipeBuf, fedCalls>>

\* deferred function: cleanup(), "Clear credentials from environment first"
FedCleanup(g) ==
    /\ fedPc[g] = "cleanup"
    /\ env' = cleanupCredentials(env)
    /\ fedPc' = [fedPc EXCEPT ![g] = "wipe"]
    /\ UNCHANGED <<fnVars, rlVars, authVars, peers, fedMu, fedLocals, fedErr, wipeBuf, fedCalls>>

\* deferred function: if peer.Password != "" { SecureWipe([]byte(peer.Password)) }
FedWipe(g) ==
    /\ fedPc[g] = "wipe"
    /\ wipeBuf' = [wipeBuf EXCEPT ![g] =
                      IF fedPeer[g][1].password # <<>>
                      THEN SecureWipe(fedPeer[g][1].password)
                      ELSE @]
    /\ fedPc' = [fedPc EXCEPT ![g] = "unlock"]
    /\ UNCHANGED <<fnVars, rlVars, authVars, peers, env, fedMu, fedLocals, fedErr, fedCalls>>

\* deferred function: federationEnvMutex.Unlock(); return err
FedUnlock(g) ==
    /\ fedPc[g] = "unlock"
    /\ fedMu' = "free"
    /\ fedPc' = [fedPc EXCEPT ![g] = "idle"]
    /\ UNCHANGED <<fnVars, rlVars, authVars, peers, env, fedLocals, fedErr, wipeBuf, fedCalls>>

FedNext ==
    \/ \E g \in Goroutines, name \in PeerNames : PushWithCredentials(g, name)
    \/ \E g \in Goroutines, name \in PeerNames : PullWithCredentials(g, name)
    \/ \E g \in Goroutines : FedLock(g)
    \/ \E g \in Goroutines : FedSetEnv(g)
    \/ \E g \in Goroutines, ok \in BOOLEAN : FedFnEnd(g, ok)
    \/ \E g \in Goroutines : FedUpdateSync(g)
    \/ \E g \in Goroutines : FedCleanup(g)
    \/ \E g \in Goroutines : FedWipe(g)
    \/ \E g \in Goroutines : FedUnlock(g)

----------------------------------------------------------------------------
(* RateLimiter *)

RECURSIVE SumOver(_, _)
SumOver(f, S) ==
    IF S = {} THEN 0
    ELSE LET x == CHOOSE y \in S : TRUE IN f[x] + SumOver(f, S \ {x})

\* a limiter whose Allow does not wait for the lock
MuFreeNoLock == TRUE

\* rl.mu.Lock() can proceed: no holder of the lock, no holder of the read lock
MuFree == rlMu = "free" /\ rlReaders = 0

\* cleanup(now): delete every client whose lastSeen is before now - cleanupInterval
cleanup(reqs, now) ==
    LET staleThreshold == now - CleanupInterval
        kept == {c \in DOMAIN reqs : ~(reqs[c].lastSeen < staleThreshold)}
    IN [c \in kept |-> reqs[c]]

\* an Allow that sweeps as soon as cleanupInterval has elapsed
sweepDueAtInterval(now) == now - lastCleanup >= CleanupInterval

\* Allow, "Periodic cleanup of stale entries"
sweepDue(now) == now - lastCleanup > CleanupInterval

\* Allow, "Get or create client state"
getOrCreate(reqs, c, now) ==
    IF c \in DOMAIN reqs THEN reqs
    ELSE [d \in DOMAIN reqs \cup {c} |->
            IF d = c THEN [requests |-> <<>>, lastSeen |-> now] ELSE reqs[d]]

\* Allow, "Remove old requests outside the window"
validRequests(rs, now) ==
    LET cutoff == now - windowDuration
        After(t) == t > cutoff
    IN SelectSeq(rs, After)

\* the limiter before any traffic, with one fixed configuration
RLIdle ==
    /\ clock = 0
    /\ maxRequests = 1
    /\ windowDuration = 1
    /\ requests = <<>>
    /\ lastCleanup = 0
    /\ rlMu = "free"
    /\ allowPc = [g \in Callers |-> "idle"]
    /\ allowNow = [g \in Callers |-> 0]
    /\ allowClient = [g \in Callers |-> "c1"]
    /\ allowRet = [g \in Callers |-> "none"]
    /\ nextTick = CleanupInterval
    /\ bgPc = "wait"
    /\ bgNow = 0
    /\ calls = 0
    /\ admitted = [c \in Clients |-> [t \in Times |-> 0]]
    /\ rlReaders = 0
    /\ statsPc = "idle"
    /\ statsActive = 0
    /\ statsOut = <<>>
    /\ untouched = {}
    /\ allowFirst = [g \in Callers |-> FALSE]

\* NewRateLimiter
RLInit ==
    /\ clock = 0
    /\ \E cfg \in RLConfigs :
         /\ maxRequests = cfg.maxRequests
         /\ windowDuration = cfg.windowDuration
    /\ requests = <<>>
    /\ lastCleanup = 0
    /\ rlMu = "free"
    /\ allowPc = [g \in Callers |-> "idle"]
    /\ allowNow = [g \in Callers |-> 0]
    /\ allowClient = [g \in Callers |-> "c1"]
    /\ allowRet = [g \in Callers |-> "none"]
    /\ nextTick = CleanupInterval
    /\ bgPc = "wait"
    /\ bgNow = 0
    /\ calls = 0
    /\ admitted = [c \in Clients |-> [t \in Times |-> 0]]
    /\ rlReaders = 0
    /\ statsPc = "idle"
    /\ statsActive = 0
    /\ statsOut = <<>>
    /\ untouched = {}
    /\ allowFirst = [g \in Callers |-> FALSE]

\* the passage of time
Tick ==
    /\ clock < MaxTime
    /\ clock' = clock + 1
    /\ UNCHANGED <<fnVars, fedVars, authVars, statVars, rlConfig, requests, lastCleanup, rlMu, allowLocals,
                   allowRet, bgLocals, calls, admitted>>

\* Allow: now := time.Now()
AllowBegin(g, c) ==
    /\ allowPc[g] = "idle"
    /\ calls < MaxCalls
    /\ calls' = calls + 1
    /\ allowPc' = [allowPc EXCEPT ![g] = "lock"]
    /\ allowNow' = [allowNow EXCEPT ![g] = clock]
    /\ allowClient' = [allowClient EXCEPT ![g] = c]
    /\ UNCHANGED <<fnVars, fedVars, authVars, statVars, clock, rlConfig, requests, lastCleanup, rlMu, allowRet,
                   bgLocals, admitted>>

\* Allow: rl.mu.Lock(); periodic cleanup; get or create the client state;
\* drop the requests outside the window
AllowEnter(g) ==
    /\ allowPc[g] = "lock"
    /\ MuFree
    /\ rlMu' = g
    /\ LET now == allowNow[g]
           c == allowClient[g]
           swept == IF sweepDue(now) THEN cleanup(requests, now) ELSE requests
           got == getOrCreate(swept, c, now)
       IN /\ lastCleanup' = IF sweepDue(now) THEN now ELSE lastCleanup
          /\ requests' = [got EXCEPT ![c].requests = validRequests(got[c].requests, now)]
    /\ allowPc' = [allowPc EXCEPT ![g] = "check"]
    /\ untouched' = untouched \ {allowClient[g]}
    /\ allowFirst' = [allowFirst EXCEPT ![g] = allowClient[g] \in untouched]
    /\ UNCHANGED <<fnVars, fedVars, authVars, statsLocals, clock, rlConfig, allowNow, allowClient, allowRet, bgLocals,
                   calls, admitted>>

\* Allow: "Check if rate limit exceeded": return false (deferred Unlock)
AllowDeny(g) ==
    /\ allowPc[g] = "check"
    /\ allowClient[g] \in DOMAIN requests
    /\ Len(requests[allowClient[g]].requests) >= maxRequests
    /\ allowRet' = [allowRet EXCEPT ![g] = "false"]
    /\ allowPc' = [allowPc EXCEPT ![g] = "idle"]
    /\ allowNow' = [allowNow EXCEPT ![g] = 0]
    /\ rlMu' = "free"
    /\ allowFirst' = [allowFirst EXCEPT ![g] = FALSE]
    /\ UNCHANGED <<fnVars, fedVars, authVars, statsLocals, untouched, clock, rlConfig, requests, lastCleanup, allowClient,
                   bgLocals, calls, admitted>>

\* Allow: the limit is not exceeded, fall through to "Add current request"
AllowPass(g) ==
    /\ allowPc[g] = "check"
    /\ allowClient[g] \in DOMAIN requests
    /\ Len(requests[allowClient[g]].requests) < maxRequests
    /\ allowPc' = [allowPc EXCEPT ![g] = "record"]
    /\ UNCHANGED <<fnVars, fedVars, authVars, statVars, clock, rlConfig, requests, lastCleanup, rlMu, allowNow,
                   allowClient, allowRet, bgLocals, calls, admitted>>

\* Allow: "Add current request", return true (deferred Unlock)
AllowRecord(g) ==
    /\ allowPc[g] = "record"
    /\ allowClient[g] \in DOMAIN requests
    /\ LET now == allowNow[g]
           c == allowClient[g]
       IN /\ requests' = [requests EXCEPT
                            ![c].requests = Append(@, now),
                            ![c].lastSeen = now]
          /\ admitted' = [admitted EXCEPT ![c][now] = @ + 1]
    /\ allowRet' = [allowRet EXCEPT ![g] = "true"]
    /\ allowPc' = [allowPc EXCEPT ![g] = "idle"]
    /\ allowNow' = [allowNow EXCEPT ![g] = 0]
    /\ rlMu' = "free"
    /\ allowFirst' = [allowFirst EXCEPT ![g] = FALSE]
    /\ UNCHANGED <<fnVars, fedVars, authVars, statsLocals, untouched, clock, rlConfig, lastCleanup, allowClient, bgLocals, calls>>

\* cleanupLoop: a tick arrives on ticker.C; now := time.Now()
BgWake ==
    /\ bgPc = "wait"
    /\ clock >= nextTick
    /\ nextTick' = nextTick + CleanupInterval
    /\ bgNow' = clock
    /\ bgPc' = "lock"
    /\ UNCHANGED <<fnVars, fedVars, authVars, statVars, clock, rlConfig, requests, lastCleanup, rlMu, allowLocals,
                   allowRet, calls, admitted>>

\* a cleanupLoop that takes the lock and stamps lastCleanup without sweeping
BgSweepStampOnly ==
    /\ bgPc = "lock"
    /\ MuFree
    /\ lastCleanup' = bgNow
    /\ bgPc' = "wait"
    /\ bgNow' = 0
    /\ UNCHANGED <<fnVars, fedVars, authVars, statVars, clock, rlConfig, requests, rlMu,
                   allowLocals, allowRet, nextTick, calls, admitted>>

\* cleanupLoop: Lock; cleanup(now); lastCleanup = now; Unlock
BgSweep ==
    /\ bgPc = "lock"
    /\ MuFree
    /\ requests' = cleanup(requests, bgNow)
    /\ lastCleanup' = bgNow
    /\ bgPc' = "wait"
    /\ bgNow' = 0
    /\ UNCHANGED <<fnVars, fedVars, authVars, statVars, clock, rlConfig, rlMu, allowLocals, allowRet, nextTick,
                   calls, admitted>>

\* a Reset that leaves the map as it is
ResetKeeps ==
    /\ MuFree
    /\ untouched' = Clients
    /\ UNCHANGED <<fnVars, fedVars, authVars, statsLocals, allowFirst, clock, rlConfig, requests,
                   lastCleanup, rlMu, allowLocals, allowRet, bgLocals, calls, admitted>>

\* Reset: Lock; rl.requests = make(map); Unlock
Reset ==
    /\ MuFree
    /\ requests' = <<>>
    /\ untouched' = Clients
    /\ UNCHANGED <<fnVars, fedVars, authVars, statsLocals, allowFirst, clock, rlConfig, lastCleanup, rlMu, allowLocals, allowRet,
                   bgLocals, calls, admitted>>

RLNext ==
    \/ Tick
    \/ \E g \in Callers, c \in Clients : AllowBegin(g, c)
    \/ \E g \in Callers : AllowEnter(g)
    \/ \E g \in Callers : AllowDeny(g)
    \/ \E g \in Callers : AllowPass(g)
    \/ \E g \in Callers : AllowRecord(g)
    \/ BgWake
    \/ BgSweep

----------------------------------------------------------------------------
(* AuthManager and RequestSigner *)

\* sha256.Size: bytes of an HMAC-SHA256 sum
HmacSize == 32
\* loadOrGenerateSecret: secret := make([]byte, 32)
SecretSize == 32
\* generateToken: hex.EncodeToString(h.Sum(nil))[:32]
TokenLen == 32

\* hex.EncodeToString: two characters per byte
HexLen(n) == 2 * n

\* A byte string that is a secret or a token is identified by how it was made:
\* seed is the number of the random secret it descends from (0: none), chain
\* the start times of the successive token derivations applied to it (HMAC is
\* taken to be collision-free), len its length in bytes.
EmptyString == [seed |-> 0, chain |-> <<>>, len |-> 0]
RandomSecret(n) == [seed |-> n, chain |-> <<>>, len |-> SecretSize]
\* tokens a client can make up without knowing any secret
ForgedToken == [seed |-> 0, chain |-> <<>>, len |-> TokenLen]
ShortToken == [seed |-> 0, chain |-> <<>>, len |-> 5]

\* generateToken: HMAC-SHA256(secretKey, socketPath + startTime), hex, first 32
generateToken(secretKey, startTime) ==
    [seed |-> secretKey.seed,
     chain |-> Append(secretKey.chain, startTime),
     len |-> IF HexLen(HmacSize) < TokenLen THEN HexLen(HmacSize) ELSE TokenLen]

\* hmac.Equal: same length and same bytes
hmacEqual(x, y) == x = y

\* the operations that skip authentication, and some that do not
OpPing == <<"p", "i", "n", "g">>
OpHealth == <<"h", "e", "a", "l", "t", "h">>
OpMetrics == <<"m", "e", "t", "r", "i", "c", "s">>
OpList == <<"l", "i", "s", "t">>
OpPin == <<"p", "i", "n">>
Operations == {OpPing, OpHealth, OpMetrics, OpList, OpPin}

ArgsValues == {<<>>, <<"a">>, <<"a", "|", "1">>}
ActorValues == {<<>>, <<"b">>}
CwdValues == {<<"c">>}
Timestamps == {-1, 0, 1, 2}
StartTimes == {1, 2}

Digit(d) == CASE d = 0 -> "0" [] d = 1 -> "1" [] d = 2 -> "2" [] d = 3 -> "3"
              [] d = 4 -> "4" [] d = 5 -> "5" [] d = 6 -> "6" [] d = 7 -> "7"
              [] d = 8 -> "8" [] d = 9 -> "9"

\* fmt %d
RECURSIVE FormatNat(_)
FormatNat(n) ==
    IF n < 10 THEN <<Digit(n)>> ELSE Append(FormatNat(n \div 10), Digit(n % 10))
FormatInt(n) == IF n < 0 THEN <<"-">> \o FormatNat(0 - n) ELSE FormatNat(n)

\* time.Unix(sec, 0).Unix()
UnixOf(sec) == sec

\* SignRequest: fmt.Sprintf("%s|%s|%d|%s|%s", Operation, Args, Unix, Actor, Cwd)
requestPayload(req, ts) ==
    req.Operation \o <<"|">> \o req.Args \o <<"|">> \o FormatInt(UnixOf(ts))
        \o <<"|">> \o req.Actor \o <<"|">> \o req.Cwd

\* a response payload that leaves the error text out
responsePayloadNoError(resp, ts) ==
    (IF resp.Success THEN <<"t", "r", "u", "e">> ELSE <<"f", "a", "l", "s", "e">>)
        \o <<"|">> \o FormatInt(UnixOf(ts))

\* SignResponse: fmt.Sprintf("%v|%s|%d", Success, Error, Unix)
responsePayload(resp, ts) ==
    (IF resp.Success THEN <<"t", "r", "u", "e">> ELSE <<"f", "a", "l", "s", "e">>)
        \o <<"|">> \o resp.Error \o <<"|">> \o FormatInt(UnixOf(ts))

\* hex(HMAC-SHA256(key, payload)): identified by key and payload
hmacHex(key, payload) ==
    [key |-> key, payload |-> payload, len |-> HexLen(HmacSize)]
EmptySignature == [key |-> EmptyString, payload |-> <<>>, len |-> 0]
ForgedSignature == [key |-> EmptyString, payload |-> <<>>, len |-> HexLen(HmacSize)]

SignRequest(key, req, ts) == hmacHex(key, requestPayload(req, ts))
SignResponse(key, resp, ts) == hmacHex(key, responsePayload(resp, ts))

\* a VerifyRequest that recomputes the signature over the nanosecond timestamp
VerifyRequestNano(key, req, ts, signature) ==
    hmacEqual(signature, hmacHex(key, requestPayload(req, ts * 1000000000)))

\* VerifyRequest: nil iff hmac.Equal(signature, expectedSignature)
VerifyRequest(key, req, ts, signature) ==
    hmacEqual(signature, SignRequest(key, req, ts))

VerifyResponse(key, resp, ts, signature) ==
    hmacEqual(signature, SignResponse(key, resp, ts))

\* ValidateToken
ValidateToken(token) == hmacEqual(amToken, token)

ErrNil == "nil"
ErrMissing == "authentication required: missing auth_token"
ErrInvalid == "authentication failed: invalid auth_token"
ErrSignature == "signature verification failed: invalid request signature"

\* a validation that forgets the missing-token check
ValidateRequestAuthNoMissing(req) ==
    IF req.Operation = OpPing \/ req.Operation = OpHealth \/ req.Operation = OpMetrics
    THEN ErrNil
    ELSE IF ~ValidateToken(req.AuthToken) /\ req.AuthToken # EmptyString THEN ErrInvalid
    ELSE IF req.Timestamp > 0 /\ req.Signature # EmptySignature
              /\ ~VerifyRequest(amSecretKey, req, req.Timestamp, req.Signature)
         THEN ErrSignature
    ELSE ErrNil

\* a validation that also exempts the operations whose name starts like "ping"
ValidateRequestAuthPrefix(req) ==
    IF req.Operation \in {OpPing, OpPin} \/ req.Operation = OpHealth \/ req.Operation = OpMetrics
    THEN ErrNil
    ELSE IF req.AuthToken = EmptyString THEN ErrMissing
    ELSE IF ~ValidateToken(req.AuthToken) THEN ErrInvalid
    ELSE IF req.Timestamp > 0 /\ req.Signature # EmptySignature
              /\ ~VerifyRequest(amSecretKey, req, req.Timestamp, req.Signature)
         THEN ErrSignature
    ELSE ErrNil

\* a validation that refuses a request signed before the current second
ValidateRequestAuthFresh(req) ==
    IF req.Operation = OpPing \/ req.Operation = OpHealth \/ req.Operation = OpMetrics
    THEN ErrNil
    ELSE IF req.AuthToken = EmptyString THEN ErrMissing
    ELSE IF ~ValidateToken(req.AuthToken) THEN ErrInvalid
    ELSE IF req.Timestamp > 0 /\ req.Signature # EmptySignature
              /\ (\/ ~VerifyRequest(amSecretKey, req, req.Timestamp, req.Signature)
                  \/ req.Timestamp < wallClock)
         THEN ErrSignature
    ELSE ErrNil

\* ValidateRequestAuth
ValidateRequestAuth(req) ==
    IF req.Operation = OpPing \/ req.Operation = OpHealth \/ req.Operation = OpMetrics
    THEN ErrNil
    ELSE IF req.AuthToken = EmptyString THEN ErrMissing
    ELSE IF ~ValidateToken(req.AuthToken) THEN ErrInvalid
    ELSE IF req.Timestamp > 0 /\ req.Signature # EmptySignature
              /\ ~VerifyRequest(amSecretKey, req, req.Timestamp, req.Signature)
         THEN ErrSignature
    ELSE ErrNil

\* the signed fields of a request
SignedFields ==
    [Operation : Operations, Args : ArgsValues, Actor : ActorValues, Cwd : CwdValues]

WithAuth(f, token, signature, ts) ==
    [Operation |-> f.Operation, Args |-> f.Args, Actor |-> f.Actor, Cwd |-> f.Cwd,
     AuthToken |-> token, Signature |-> signature, Timestamp |-> ts]

\* the signatures a client may attach to the fields f at timestamp ts: none, a
\* made-up one, the right one, one made for another timestamp or other Args
SignaturesFor(f, ts) ==
    {EmptySignature, ForgedSignature,
     SignRequest(amSecretKey, f, ts),
     SignRequest(amSecretKey, f, ts + 1),
     SignRequest(amSecretKey, [f EXCEPT !.Args = <<"z">>], ts)}

TokensOffered == {EmptyString, ForgedToken, ShortToken, amToken}

NoRequest == WithAuth([Operation |-> <<>>, Args |-> <<>>, Actor |-> <<>>, Cwd |-> <<>>],
                      EmptyString, EmptySignature, 0)

Responses == [Success : BOOLEAN, Error : {<<>>, <<"e">>}]

\* before the daemon has ever started: no file, no instance
AuthIdle ==
    /\ tokenFile = <<>>
    /\ amAlive = FALSE
    /\ amSecretKey = EmptyString
    /\ amToken = EmptyString
    /\ amStartTime = 0
    /\ starts = 0
    /\ keysGenerated = 0
    /\ cleaned = FALSE
    /\ authReq = NoRequest
    /\ authRes = "none"
    /\ gotToken = EmptyString
    /\ sigOut = EmptySignature
    /\ verRes = "none"

\* the outputs of the calls, cleared
NoOutputs ==
    /\ authReq' = NoRequest
    /\ authRes' = "none"
    /\ gotToken' = EmptyString
    /\ sigOut' = EmptySignature
    /\ verRes' = "none"

\* no result of a call is waiting to be read by its caller
Ready ==
    /\ authReq = NoRequest
    /\ authRes = "none"
    /\ gotToken = EmptyString
    /\ sigOut = EmptySignature
    /\ verRes = "none"

\* the caller has read the result of its call
Return ==
    /\ ~Ready
    /\ NoOutputs
    /\ UNCHANGED <<fnVars, rlVars, fedVars, tokenFile, amFields, starts, keysGenerated, cleaned>>

\* a NewAuthManager that does not save the token: the file keeps the secret
NewAuthManagerNoSave(startTime) ==
    /\ ~amAlive
    /\ starts < MaxStarts
    /\ starts' = starts + 1
    /\ LET loaded == tokenFile # <<>>
           secret == IF loaded THEN tokenFile[1] ELSE RandomSecret(keysGenerated + 1)
       IN /\ keysGenerated' = IF loaded THEN keysGenerated ELSE keysGenerated + 1
          /\ amSecretKey' = secret
          /\ amToken' = generateToken(secret, startTime)
          /\ tokenFile' = <<secret>>
    /\ amStartTime' = startTime
    /\ amAlive' = TRUE
    /\ cleaned' = FALSE
    /\ NoOutputs
    /\ UNCHANGED <<fnVars, rlVars, fedVars>>

\* NewAuthManager: loadOrGenerateSecret, generateToken, saveToken, NewRequestSigner
NewAuthManager(startTime) ==
    /\ ~amAlive
    /\ starts < MaxStarts
    /\ starts' = starts + 1
    /\ LET loaded == tokenFile # <<>>
           secret == IF loaded THEN tokenFile[1] ELSE RandomSecret(keysGenerated + 1)
           token == generateToken(secret, startTime)
       IN /\ keysGenerated' = IF loaded THEN keysGenerated ELSE keysGenerated + 1
          /\ amSecretKey' = secret
          /\ amToken' = token
          /\ tokenFile' = <<token>>
    /\ amStartTime' = startTime
    /\ amAlive' = TRUE
    /\ cleaned' = FALSE
    /\ NoOutputs
    /\ UNCHANGED <<fnVars, rlVars, fedVars>>

\* a Cleanup that leaves the file in place
CleanupKeepsFile ==
    /\ amAlive
    /\ cleaned' = TRUE
    /\ UNCHANGED <<fnVars, rlVars, fedVars, tokenFile, amFields, starts, keysGenerated,
                   authReq, authRes, gotToken, sigOut, verRes>>

\* Cleanup: os.Remove(am.tokenFile)
Cleanup ==
    /\ amAlive
    /\ tokenFile' = <<>>
    /\ cleaned' = TRUE
    /\ UNCHANGED <<fnVars, rlVars, fedVars, amFields, starts, keysGenerated, authReq,
                   authRes, gotToken, sigOut, verRes>>

\* the daemon process ends
Exit ==
    /\ amAlive
    /\ amAlive' = FALSE
    /\ NoOutputs
    /\ UNCHANGED <<fnVars, rlVars, fedVars, tokenFile, amSecretKey, amToken, amStartTime,
                   starts, keysGenerated, cleaned>>

\* a GetToken that derives the token again, for the time of the call
GetTokenRederive ==
    /\ amAlive
    /\ Ready
    /\ \E t \in Timestamps : amToken' = generateToken(amSecretKey, t)
    /\ gotToken' = amToken'
    /\ authReq' = NoRequest /\ authRes' = "none"
    /\ sigOut' = EmptySignature /\ verRes' = "none"
    /\ UNCHANGED <<fnVars, rlVars, fedVars, tokenFile, amAlive, amSecretKey, amStartTime,
                   starts, keysGenerated, cleaned>>

\* GetToken
GetToken ==
    /\ amAlive
    /\ Ready
    /\ gotToken' = amToken
    /\ authReq' = NoRequest /\ authRes' = "none"
    /\ sigOut' = EmptySignature /\ verRes' = "none"
    /\ UNCHANGED <<fnVars, rlVars, fedVars, tokenFile, amFields, starts, keysGenerated, cleaned>>

\* ValidateToken(token)
ValidateTokenCall ==
    /\ amAlive
    /\ Ready
    /\ \E token \in TokensOffered :
          /\ verRes' = IF ValidateToken(token) THEN "true" ELSE "false"
          /\ authReq' = WithAuth(NoRequest, token, EmptySignature, 0)
    /\ authRes' = "none" /\ gotToken' = EmptyString /\ sigOut' = EmptySignature
    /\ UNCHANGED <<fnVars, rlVars, fedVars, tokenFile, amFields, starts, keysGenerated, cleaned>>

\* ValidateRequestAuth(req)
ValidateRequestAuthCall ==
    /\ amAlive
    /\ Ready
    /\ \E f \in SignedFields, ts \in Timestamps, token \in TokensOffered :
          \E signature \in SignaturesFor(f, ts) :
             LET req == WithAuth(f, token, signature, ts)
             IN /\ authReq' = req
                /\ authRes' = ValidateRequestAuth(req)
    /\ gotToken' = EmptyString /\ sigOut' = EmptySignature /\ verRes' = "none"
    /\ UNCHANGED <<fnVars, rlVars, fedVars, tokenFile, amFields, starts, keysGenerated, cleaned>>

\* am.SignRequest(req, timestamp)
SignRequestCall ==
    /\ amAlive
    /\ Ready
    /\ \E f \in SignedFields, ts \in Timestamps :
          /\ authReq' = WithAuth(f, EmptyString, EmptySignature, ts)
          /\ sigOut' = SignRequest(amSecretKey, f, ts)
    /\ authRes' = "none" /\ gotToken' = EmptyString /\ verRes' = "none"
    /\ UNCHANGED <<fnVars, rlVars, fedVars, tokenFile, amFields, starts, keysGenerated, cleaned>>

\* am.VerifyRequest(req, timestamp, signature)
VerifyRequestCall ==
    /\ amAlive
    /\ Ready
    /\ \E f \in SignedFields, ts \in Timestamps :
          \E signature \in SignaturesFor(f, ts) :
             /\ authReq' = WithAuth(f, EmptyString, signature, ts)
             /\ verRes' = IF VerifyRequest(amSecretKey, f, ts, signature) THEN "nil"
                          ELSE "invalid request signature"
    /\ authRes' = "none" /\ gotToken' = EmptyString /\ sigOut' = EmptySignature
    /\ UNCHANGED <<fnVars, rlVars, fedVars, tokenFile, amFields, starts, keysGenerated, cleaned>>

\* am.SignResponse(resp, timestamp)
SignResponseCall ==
    /\ amAlive
    /\ Ready
    /\ \E resp \in Responses, ts \in Timestamps :
          sigOut' = SignResponse(amSecretKey, resp, ts)
    /\ authReq' = NoRequest
    /\ authRes' = "none" /\ gotToken' = EmptyString /\ verRes' = "none"
    /\ UNCHANGED <<fnVars, rlVars, fedVars, tokenFile, amFields, starts, keysGenerated, cleaned>>

\* am.VerifyResponse(resp, timestamp, signature)
VerifyResponseCall ==
    /\ amAlive
    /\ Ready
    /\ \E resp \in Responses, ts \in Timestamps :
          \E signature \in {ForgedSignature, SignResponse(amSecretKey, resp, ts),
                            SignResponse(amSecretKey, resp, ts + 1)} :
             /\ verRes' = IF VerifyResponse(amSecretKey, resp, ts, signature)
                          THEN "nil" ELSE "invalid response signature"
             /\ sigOut' = signature
    /\ authReq' = NoRequest
    /\ authRes' = "none" /\ gotToken' = EmptyString
    /\ UNCHANGED <<fnVars, rlVars, fedVars, tokenFile, amFields, starts, keysGenerated, cleaned>>

AuthNext ==
    \/ \E startTime \in StartTimes : NewAuthManager(startTime)
    \/ Cleanup
    \/ Exit
    \/ Return
    \/ GetToken
    \/ ValidateTokenCall
    \/ ValidateRequestAuthCall
    \/ SignRequestCall
    \/ VerifyRequestCall
    \/ SignResponseCall
    \/ VerifyResponseCall

----------------------------------------------------------------------------
(* RequestSigner on its own *)

Slots == {1, 2}
SignerKeys == {RandomSecret(1), RandomSecret(2)}
SignerFields ==
    [Operation : {OpList, OpPin}, Args : ArgsValues,
     Actor : {<<"b">>, <<"1", "|", "b">>}, Cwd : CwdValues]
SignerTimes == {1, 2}

\* no signer constructed
SignIdle ==
    /\ rsSecretKey = EmptyString
    /\ signedReq = [i \in Slots |-> <<>>]
    /\ signedSig = [i \in Slots |-> EmptySignature]
    /\ verifyOf = <<>>
    /\ verifyRes = "none"
    /\ respIn = [i \in Slots |-> <<>>]
    /\ respSig = [i \in Slots |-> EmptySignature]
    /\ respVerOf = <<>>
    /\ respVerRes = "none"

\* NewRequestSigner(secretKey)
NewRequestSigner ==
    /\ rsSecretKey \in SignerKeys
    /\ signedReq = [i \in Slots |-> <<>>]
    /\ signedSig = [i \in Slots |-> EmptySignature]
    /\ verifyOf = <<>>
    /\ verifyRes = "none"
    /\ respIn = [i \in Slots |-> <<>>]
    /\ respSig = [i \in Slots |-> EmptySignature]
    /\ respVerOf = <<>>
    /\ respVerRes = "none"

\* rs.SignRequest(req, timestamp), its arguments and result kept in slot i
RsSignRequest(i) ==
    /\ \E f \in SignerFields, ts \in SignerTimes :
          /\ signedReq' = [signedReq EXCEPT ![i] = <<[req |-> f, ts |-> ts]>>]
          /\ signedSig' = [signedSig EXCEPT ![i] = SignRequest(rsSecretKey, f, ts)]
    /\ verifyOf' = <<>>
    /\ verifyRes' = "none"
    /\ UNCHANGED <<notSign, rsSecretKey, respVars>>

\* rs.VerifyRequest(req, timestamp, signature): the arguments of slot j, the
\* signature of slot i
RsVerifyRequest(i, j) ==
    /\ signedReq[i] # <<>>
    /\ signedReq[j] # <<>>
    /\ verifyOf' = <<i, j>>
    /\ verifyRes' = IF VerifyRequest(rsSecretKey, signedReq[j][1].req,
                                     signedReq[j][1].ts, signedSig[i])
                    THEN "nil" ELSE "invalid request signature"
    /\ UNCHANGED <<notSign, rsSecretKey, signedReq, signedSig, respVars>>

SignNext ==
    \/ \E i \in Slots : RsSignRequest(i)
    \/ \E i \in Slots, j \in Slots : RsVerifyRequest(i, j)

SignerResponses ==
    [Success : BOOLEAN, Error : {<<>>, <<"e">>, <<"e", "|", "1">>},
     Data : {<<>>, <<"x">>}]

\* rs.SignResponse(resp, timestamp), its arguments and result kept in slot i
RsSignResponse(i) ==
    /\ \E resp \in SignerResponses, ts \in SignerTimes :
          /\ respIn' = [respIn EXCEPT ![i] = <<[resp |-> resp, ts |-> ts]>>]
          /\ respSig' = [respSig EXCEPT ![i] = SignResponse(rsSecretKey, resp, ts)]
    /\ respVerOf' = <<>>
    /\ respVerRes' = "none"
    /\ UNCHANGED <<notSign, rsSecretKey, reqVars>>

\* rs.VerifyResponse(resp, timestamp, signature): the arguments of slot j, the
\* signature of slot i
RsVerifyResponse(i, j) ==
    /\ respIn[i] # <<>>
    /\ respIn[j] # <<>>
    /\ respVerOf' = <<i, j>>
    /\ respVerRes' = IF VerifyResponse(rsSecretKey, respIn[j][1].resp,
                                       respIn[j][1].ts, respSig[i])
                     THEN "nil" ELSE "invalid response signature"
    /\ UNCHANGED <<notSign, rsSecretKey, reqVars, respIn, respSig>>

SignRespNext ==
    \/ \E i \in Slots : RsSignResponse(i)
    \/ \E i \in Slots, j \in Slots : RsVerifyResponse(i, j)

----------------------------------------------------------------------------
(* FileKeyring key derivation and DoltStore credential encryption *)

\* keySize
keySize == 32
\* gcm.NonceSize() of cipher.NewGCM
NonceSize == 12

\* A key is identified by how it was made: the SHA-256 sum of a byte string
\* (SHA-256 is taken to be collision-free) or the n-th draw from crypto/rand.
Sha256(bytes) == [sha256 |-> bytes, rand |-> 0, len |-> HmacSize]
RandomKey(n) == [sha256 |-> <<>>, rand |-> n, len |-> keySize]
NoKey == [sha256 |-> <<>>, rand |-> 0, len |-> 0]
\* the bytes of a key written into a hash: one symbol standing for them
KeyBytes(key) == <<ToString(key)>>

\* the fixed salt, and the service name of the federation credentials
LegacySalt == <<"beads-federation-key-v1">>
DoltCredentials == <<"dolt-credentials">>

\* deriveKeyFromDBPath(dbPath, nil)
deriveKeyFromDBPath(dbPath) == Sha256(dbPath \o LegacySalt)

\* a NewFileKeyring that keeps the random master key of a new keyring
masterKeyRandom(exists, dbPath, n) ==
    IF exists THEN deriveKeyFromDBPath(dbPath) ELSE RandomKey(n)

\* NewFileKeyring: k.masterKey, for an existing and for a new keyring file; n
\* numbers the draw from crypto/rand
masterKey(exists, dbPath, n) ==
    IF exists
    THEN deriveKeyFromDBPath(dbPath)
    ELSE LET generated == RandomKey(n)
             compatible == deriveKeyFromDBPath(dbPath)
         IN compatible

\* FileKeyring.GetKey
GetKey(master, service, user) ==
    IF service = DoltCredentials
    THEN master
    ELSE Sha256(KeyBytes(master) \o service \o <<":">> \o user)

\* an encryptionKey whose fallback derives the key with another salt
encryptionKeyOtherSalt(keyring, dbPath) ==
    IF keyring # <<>> /\ GetKey(keyring[1], DoltCredentials, dbPath) # NoKey
    THEN GetKey(keyring[1], DoltCredentials, dbPath)
    ELSE Sha256(dbPath \o <<"beads-federation-key-v2">>)

\* DoltStore.encryptionKey
encryptionKey(keyring, dbPath) ==
    IF keyring # <<>> /\ GetKey(keyring[1], DoltCredentials, dbPath) # NoKey
    THEN GetKey(keyring[1], DoltCredentials, dbPath)
    ELSE Sha256(dbPath \o LegacySalt)

\* aes.NewCipher: the key sizes of AES
aesKeySizes == {16, 24, 32}

\* the bytes of a ciphertext: nonce bytes, then one cell standing for the
\* bytes gcm.Seal appends (encrypted plaintext and tag)
NonceCell(b) == [kind |-> "byte", b |-> b, key |-> NoKey, nonce |-> <<>>, pt |-> <<>>]
SealedCell(key, nonce, pt) ==
    [kind |-> "sealed", b |-> 0, key |-> key, nonce |-> nonce, pt |-> pt]

\* gcm.Seal(nonce, nonce, plaintext, nil)
gcmSeal(key, nonce, plaintext) ==
    [i \in 1..Len(nonce) |-> NonceCell(nonce[i])] \o <<SealedCell(key, nonce, plaintext)>>

\* gcm.Open(nil, nonce, ciphertext, nil)
gcmOpen(key, nonce, ciphertext) ==
    IF /\ Len(ciphertext) = 1
       /\ ciphertext[1].kind = "sealed"
       /\ ciphertext[1].key = key
       /\ ciphertext[1].nonce = nonce
    THEN [pw |-> ciphertext[1].pt, err |-> "nil"]
    ELSE [pw |-> <<>>, err |-> "failed to decrypt"]

\* DoltStore.encryptPassword
encryptPassword(keyring, dbPath, password, nonce) ==
    IF password = <<>>
    THEN [ct |-> <<>>, err |-> "nil"]
    ELSE LET key == encryptionKey(keyring, dbPath)
         IN IF key.len \notin aesKeySizes
            THEN [ct |-> <<>>, err |-> "failed to create cipher"]
            ELSE [ct |-> gcmSeal(key, nonce, password), err |-> "nil"]

\* a decryptPassword that hands the whole value, nonce included, to gcm.Open
decryptPasswordWhole(keyring, dbPath, enc) ==
    IF Len(enc) = 0
    THEN [pw |-> <<>>, err |-> "nil"]
    ELSE gcmOpen(encryptionKey(keyring, dbPath),
                 [i \in 1..NonceSize |-> enc[i].b], enc)

\* a decryptPassword that leaves a short value to gcm.Open to refuse
decryptPasswordNoShort(keyring, dbPath, enc) ==
    IF Len(enc) = 0
    THEN [pw |-> <<>>, err |-> "nil"]
    ELSE IF Len(enc) < NonceSize
    THEN [pw |-> <<>>, err |-> "failed to decrypt"]
    ELSE gcmOpen(encryptionKey(keyring, dbPath), [i \in 1..NonceSize |-> enc[i].b],
                 SubSeq(enc, NonceSize + 1, Len(enc)))

\* DoltStore.decryptPassword
decryptPassword(keyring, dbPath, enc) ==
    IF Len(enc) = 0
    THEN [pw |-> <<>>, err |-> "nil"]
    ELSE LET key == encryptionKey(keyring, dbPath)
         IN IF key.len \notin aesKeySizes
            THEN [pw |-> <<>>, err |-> "failed to create cipher"]
            ELSE IF Len(enc) < NonceSize
            THEN [pw |-> <<>>, err |-> "ciphertext too short"]
            ELSE gcmOpen(key, [i \in 1..NonceSize |-> enc[i].b],
                         SubSeq(enc, NonceSize + 1, Len(enc)))

DbPaths == {<<"d", "1">>, <<"d", "2">>}
Passwords == {<<>>, <<"p">>, <<"p", "w">>, <<"p", "|", "w">>, <<"0">>}
Nonces == {[i \in 1..NonceSize |-> b] : b \in {0, 1, 2}}
\* the keyrings a store at dbPath can be opened with: nil, or a FileKeyring
KeyringsAt(dbPath) ==
    {<<>>} \cup {<<masterKey(exists, dbPath, 1)>> : exists \in BOOLEAN}

NoCiphertext == [ct |-> <<>>, err |-> "none"]

\* no store opened
CredIdle ==
    /\ stDbPath = <<>>
    /\ stKeyring = <<>>
    /\ pwIn = <<>>
    /\ encrypted = NoCiphertext
    /\ decOut = <<>>
    /\ encKeyring = <<>>
    /\ tamper = "none"

\* a DoltStore opened at a database path, with or without a keyring
OpenStore ==
    /\ stDbPath \in DbPaths
    /\ stKeyring \in KeyringsAt(stDbPath)
    /\ pwIn = <<>>
    /\ encrypted = NoCiphertext
    /\ decOut = <<>>
    /\ encKeyring = <<>>
    /\ tamper = "none"

\* s.encryptPassword(password)
EncryptPasswordCall ==
    /\ \E password \in Passwords, nonce \in Nonces :
          /\ pwIn' = <<password>>
          /\ encrypted' = encryptPassword(stKeyring, stDbPath, password, nonce)
    /\ decOut' = <<>>
    /\ encKeyring' = stKeyring
    /\ tamper' = "none"
    /\ UNCHANGED <<notCred, stDbPath, stKeyring>>

\* s.decryptPassword(encrypted) of the stored ciphertext
DecryptPasswordCall ==
    /\ pwIn # <<>>
    /\ encrypted.err = "nil"
    /\ decOut = <<>>
    /\ decOut' = <<decryptPassword(stKeyring, stDbPath, encrypted.ct)>>
    /\ UNCHANGED <<notCred, stDbPath, stKeyring, pwIn, encrypted, encKeyring, tamper>>

\* the store is closed and opened again at the same path, the keyring
\* available or not
ReopenStore ==
    /\ \E keyring \in KeyringsAt(stDbPath) :
          /\ keyring # stKeyring
          /\ stKeyring' = keyring
    /\ UNCHANGED <<notCred, stDbPath, pwIn, encrypted, decOut, encKeyring, tamper>>

CredNext ==
    \/ EncryptPasswordCall
    \/ DecryptPasswordCall
    \/ ReopenStore

\* the bytes gcm.Seal appended, with a byte changed: no key opens them
TamperedCell(cell) == [cell EXCEPT !.kind = "tampered"]

\* the ways the stored value password_encrypted is altered: cut below the
\* nonce size, cut to the nonce, a nonce byte changed, a sealed byte changed,
\* replaced by a value sealed under the key of another database path
Alterations == {"short1", "short11", "cut", "nonce", "body", "wrongkey"}
Altered(ct, how) ==
    CASE how = "short1" -> SubSeq(ct, 1, 1)
      [] how = "short11" -> SubSeq(ct, 1, NonceSize - 1)
      [] how = "cut" -> SubSeq(ct, 1, NonceSize)
      [] how = "nonce" -> [ct EXCEPT ![1] = NonceCell((ct[1].b + 1) % 256)]
      [] how = "body" -> [ct EXCEPT ![NonceSize + 1] = TamperedCell(ct[NonceSize + 1])]
      [] how = "wrongkey" ->
            [ct EXCEPT ![NonceSize + 1] =
                SealedCell(deriveKeyFromDBPath(stDbPath \o <<"x">>),
                           ct[NonceSize + 1].nonce, ct[NonceSize + 1].pt)]

\* the stored ciphertext is altered outside the store
AlterCiphertext ==
    /\ pwIn # <<>>
    /\ encrypted.err = "nil"
    /\ encrypted.ct # <<>>
    /\ decOut = <<>>
    /\ tamper = "none"
    /\ \E how \in Alterations :
          /\ encrypted' = [encrypted EXCEPT !.ct = Altered(encrypted.ct, how)]
          /\ tamper' = how
    /\ UNCHANGED <<notCred, stDbPath, stKeyring, pwIn, decOut, encKeyring>>

----------------------------------------------------------------------------
(* FileKeyring *)

Vaults == {1, 2}
KeyFile == "keyring"
StoredKeys == {RandomKey(7)}
OtherRequests ==
    {[service |-> <<"a">>, user |-> <<"b", ":", "c">>],
     [service |-> <<"a", ":", "b">>, user |-> <<"c">>],
     [service |-> <<"a">>, user |-> <<"c">>]}
\* the (service, user) pairs asked of a vault opened for dbPath
KeyRequests(dbPath) == {[service |-> DoltCredentials, user |-> dbPath]} \cup OtherRequests

\* no vault constructed, no keyring file
VaultIdle ==
    /\ keyFiles = {}
    /\ kr = [v \in Vaults |-> <<>>]
    /\ gk = [c \in Slots |-> <<>>]
    /\ held = <<>>
    /\ krErr = <<>>

\* NewFileKeyring(keyFile, dbPath), the result held as vault v
NewFileKeyring(v, dbPath) ==
    /\ kr' = [kr EXCEPT ![v] =
                <<[keyFile |-> KeyFile, dbPath |-> dbPath,
                   created |-> KeyFile \notin keyFiles,
                   masterKey |-> masterKey(KeyFile \in keyFiles, dbPath, v)]>>]
    /\ keyFiles' = keyFiles \cup {KeyFile}
    /\ UNCHANGED <<notVault, gk, held, krErr>>

\* k.GetKey(service, user), arguments and result kept in slot c
GetKeyCall(c, v) ==
    /\ kr[v] # <<>>
    /\ \E q \in KeyRequests(kr[v][1].dbPath) :
          gk' = [gk EXCEPT ![c] =
                   <<[dbPath |-> kr[v][1].dbPath,
                      created |-> kr[v][1].created,
                      service |-> q.service, user |-> q.user,
                      key |-> GetKey(kr[v][1].masterKey, q.service, q.user)]>>]
    /\ UNCHANGED <<notVault, keyFiles, kr, held, krErr>>

\* a StoreKey that keeps the key as the vault's master key
StoreKeyKeeps(v) ==
    /\ kr[v] # <<>>
    /\ \E q \in OtherRequests, keyData \in StoredKeys :
          /\ krErr' = <<[op |-> "StoreKey", service |-> q.service,
                         user |-> q.user, keyData |-> keyData, err |-> "nil"]>>
          /\ kr' = [kr EXCEPT ![v] = <<[kr[v][1] EXCEPT !.masterKey = keyData]>>]
    /\ UNCHANGED <<notVault, keyFiles, gk, held>>

\* k.StoreKey(service, user, keyData)
StoreKey(v) ==
    /\ kr[v] # <<>>
    /\ \E q \in OtherRequests, keyData \in StoredKeys :
          krErr' = <<[op |-> "StoreKey", service |-> q.service,
                      user |-> q.user, keyData |-> keyData, err |-> "nil"]>>
    /\ UNCHANGED <<notVault, keyFiles, kr, gk, held>>

\* k.DeleteKey(service, user)
DeleteKey(v) ==
    /\ kr[v] # <<>>
    /\ \E q \in OtherRequests :
          krErr' = <<[op |-> "DeleteKey", service |-> q.service,
                      user |-> q.user, keyData |-> NoKey, err |-> "nil"]>>
    /\ UNCHANGED <<notVault, keyFiles, kr, gk, held>>

\* k.Cleanup(): os.Remove(k.keyFile)
KeyringCleanup(v) ==
    /\ kr[v] # <<>>
    /\ keyFiles' = keyFiles \ {kr[v][1].keyFile}
    /\ UNCHANGED <<notVault, kr, gk, held, krErr>>

\* SecureWipe applied to a key: as many bytes, all zero
WipedKey(key) == [sha256 |-> <<>>, rand |-> 0, len |-> key.len]

\* k.GetKey(service, user) by a caller that keeps the returned buffer: for
\* "dolt-credentials" it is the slice k.masterKey itself, for another service
\* the fresh slice h.Sum(nil)
GetKeyHeld(v) ==
    /\ kr[v] # <<>>
    /\ held = <<>>
    /\ \E q \in KeyRequests(kr[v][1].dbPath) :
          held' = <<[vault |-> v, shared |-> q.service = DoltCredentials,
                     key |-> GetKey(kr[v][1].masterKey, q.service, q.user)]>>
    /\ UNCHANGED <<notVault, keyFiles, kr, gk, krErr>>

\* crypto.SecureWipe(key) by the caller on the buffer it keeps
SecureWipeHeld ==
    /\ held # <<>>
    /\ held' = <<>>
    /\ kr' = IF held[1].shared
             THEN [kr EXCEPT ![held[1].vault] =
                     <<[kr[held[1].vault][1] EXCEPT !.masterKey = WipedKey(held[1].key)]>>]
             ELSE kr
    /\ UNCHANGED <<notVault, keyFiles, gk, krErr>>

\* the calls of a caller that wipes the keys it was given
VaultWipeNext ==
    \/ \E v \in Vaults, dbPath \in DbPaths : NewFileKeyring(v, dbPath)
    \/ \E v \in Vaults : GetKeyCall(1, v)
    \/ \E v \in Vaults : StoreKey(v)
    \/ \E v \in Vaults : DeleteKey(v)
    \/ \E v \in Vaults : GetKeyHeld(v)
    \/ SecureWipeHeld

VaultNext ==
    \/ \E v \in Vaults, dbPath \in DbPaths : NewFileKeyring(v, dbPath)
    \/ \E c \in Slots, v \in Vaults : GetKeyCall(c, v)
    \/ \E v \in Vaults : StoreKey(v)
    \/ \E v \in Vaults : DeleteKey(v)
    \/ \E v \in Vaults : KeyringCleanup(v)

----------------------------------------------------------------------------
(* validatePeerName *)

\* len(name) > 64
MaxPeerNameLen == 64

AsciiLower == {"a", "b", "c", "d", "e", "f", "g", "h", "i", "j", "k", "l", "m",
               "n", "o", "p", "q", "r", "s", "t", "u", "v", "w", "x", "y", "z"}
AsciiUpper == {"A", "B", "C", "D", "E", "F", "G", "H", "I", "J", "K", "L", "M",
               "N", "O", "P", "Q", "R", "S", "T", "U", "V", "W", "X", "Y", "Z"}
AsciiDigit == {"0", "1", "2", "3", "4", "5", "6", "7", "8", "9"}

\* bytes of the UTF-8 encoding of a character
ByteLen(c) == IF c \in AsciiLower \cup AsciiUpper \cup AsciiDigit \cup {"-", "_", "@", " "}
              THEN 1 ELSE 2

\* len(name): bytes
RECURSIVE byteLen(_)
byteLen(name) ==
    IF name = <<>> THEN 0 ELSE ByteLen(Head(name)) + byteLen(Tail(name))

\* validPeerNameRegex: ^[a-zA-Z][a-zA-Z0-9_-]*$
validPeerNameRegex(name) ==
    /\ Len(name) >= 1
    /\ name[1] \in AsciiLower \cup AsciiUpper
    /\ \A i \in 2..Len(name) :
          name[i] \in AsciiLower \cup AsciiUpper \cup AsciiDigit \cup {"_", "-"}

ErrNameEmpty == "peer name cannot be empty"
ErrNameTooLong == "peer name too long (max 64 characters)"
ErrNameChars == "peer name must start with a letter and contain only alphanumeric characters, hyphens, and underscores"

\* a validatePeerName without the length check
validatePeerNameNoMax(name) ==
    IF name = <<>> THEN ErrNameEmpty
    ELSE IF ~validPeerNameRegex(name) THEN ErrNameChars
    ELSE "nil"

\* validatePeerName
validatePeerName(name) ==
    IF name = <<>> THEN ErrNameEmpty
    ELSE IF byteLen(name) > MaxPeerNameLen THEN ErrNameTooLong
    ELSE IF ~validPeerNameRegex(name) THEN ErrNameChars
    ELSE "nil"

\* the names tried: up to two characters of each kind, followed by a run of
\* the letter a
NameChars == {"w", "B", "1", "-", "_", "@", "é"}
NameHeads == {<<>>} \cup {<<c>> : c \in NameChars}
                \cup {<<c, d>> : c \in NameChars, d \in NameChars}
Run(n) == [i \in 1..n |-> "a"]
ExampleNames ==
    {<<"w", "e", "b", "-", "1">>, <<"1", "w", "e", "b">>, <<"a", "@", "b">>}
PeerNamesTried == {h \o Run(n) : h \in NameHeads, n \in 0..MaxRun} \cup ExampleNames

NameIdle == peerName = <<>> /\ vpnErr = "none"

\* a caller holds a name
ChooseName == peerName \in PeerNamesTried /\ vpnErr = "none"

\* validatePeerName(name)
ValidatePeerNameCall ==
    /\ vpnErr = "none"
    /\ vpnErr' = validatePeerName(peerName)
    /\ UNCHANGED <<notName, peerName>>

NameNext == ValidatePeerNameCall

----------------------------------------------------------------------------
(* DoltStore federation peers *)

\* the names tried: two that validatePeerName accepts, three that it refuses
ValidNames == {<<"e", "a", "s", "t">>, <<"w", "e", "b", "-", "1">>}
InvalidNames == {<<>>, <<"a", "@", "b">>, [i \in 1..(MaxPeerNameLen + 1) |-> "a"]}
NamesTried == ValidNames \cup InvalidNames
\* ORDER BY name: the names tried, ascending
NameOrder == <<<<>>, <<"a", "@", "b">>, [i \in 1..(MaxPeerNameLen + 1) |-> "a"],
               <<"e", "a", "s", "t">>, <<"w", "e", "b", "-", "1">>>>

\* storage.FederationPeer: the values AddFederationPeer is called with
PeersTried ==
    {[Name |-> n, RemoteURL |-> v.url, Username |-> v.user,
      Password |-> v.pw, Sovereignty |-> v.sov] :
        n \in NamesTried,
        v \in {[url |-> "u1", user |-> "", pw |-> <<>>, sov |-> "T1"],
               [url |-> "u2", user |-> "bob", pw |-> <<"p", "w">>, sov |-> "T2"]}}

\* the nonces encryptPassword draws from crypto/rand; none is drawn for an
\* empty password
PeerNonces(password) ==
    IF password # <<>> THEN {[i \in 1..NonceSize |-> b] : b \in {0, 1}} ELSE {<<>>}

\* the outcome of a statement or query on s.db
DbOutcomes == {"ok", "fail"}

\* s.AddRemote(ctx, name, url): the errors it can return
AddRemoteOutcomes(rem, name) ==
    IF rem[name] # <<>> THEN {"already exists", "failed"} ELSE {"nil", "failed"}

\* s.RemoveRemote(ctx, name): the errors it can return
RemoveRemoteOutcomes(rem, name) ==
    IF rem[name] # <<>> THEN {"nil", "failed"} ELSE {"failed"}

\* the row the INSERT of AddFederationPeer carries
PeerRow(peer, encryptedPwd) ==
    [name |-> peer.Name, remote_url |-> peer.RemoteURL, username |-> peer.Username,
     password_encrypted |-> encryptedPwd, sovereignty |-> peer.Sovereignty]

\* an INSERT that never meets a duplicate key
UpsertInsertOnly(table, row) == Append(table, row)

\* INSERT ... ON DUPLICATE KEY UPDATE, the key being name
Upsert(table, row) ==
    IF \E i \in DOMAIN table : table[i].name = row.name
    THEN [i \in DOMAIN table |-> IF table[i].name = row.name THEN row ELSE table[i]]
    ELSE Append(table, row)

\* SELECT ... WHERE name = ?
RowsNamed(table, name) == SelectSeq(table, LAMBDA r : r.name = name)

\* SELECT ... ORDER BY name
RECURSIVE OrderByName(_, _)
OrderByName(table, order) ==
    IF order = <<>> THEN <<>>
    ELSE RowsNamed(table, Head(order)) \o OrderByName(table, Tail(order))

\* DELETE FROM federation_peers WHERE name = ?
DeleteNamed(table, name) == SelectSeq(table, LAMBDA r : r.name # name)

\* the peer scanned from a row, its password decrypted
ScannedPeer(row, password) ==
    [Name |-> row.name, RemoteURL |-> row.remote_url, Username |-> row.username,
     Password |-> password, Sovereignty |-> row.sovereignty]

\* GetFederationPeer, the query having succeeded
GetFederationPeer(table, keyring, dbPath, name) ==
    LET rows == RowsNamed(table, name)
    IN IF rows = <<>>
       THEN [peer |-> <<>>, err |-> "nil"]
       ELSE IF Len(rows[1].password_encrypted) > 0
       THEN LET dec == decryptPassword(keyring, dbPath, rows[1].password_encrypted)
            IN IF dec.err # "nil"
               THEN [peer |-> <<>>, err |-> "failed to decrypt password"]
               ELSE [peer |-> <<ScannedPeer(rows[1], dec.pw)>>, err |-> "nil"]
       ELSE [peer |-> <<ScannedPeer(rows[1], <<>>)>>, err |-> "nil"]

\* ListFederationPeers: the loop over the rows of the query
RECURSIVE ListFederationPeers(_, _, _, _)
ListFederationPeers(rows, keyring, dbPath, listed) ==
    IF rows = <<>>
    THEN [peers |-> listed, err |-> "nil"]
    ELSE IF Len(Head(rows).password_encrypted) > 0
    THEN LET dec == decryptPassword(keyring, dbPath, Head(rows).password_encrypted)
         IN IF dec.err # "nil"
            THEN [peers |-> <<>>, err |-> "failed to decrypt password"]
            ELSE ListFederationPeers(Tail(rows), keyring, dbPath,
                                     Append(listed, ScannedPeer(Head(rows), dec.pw)))
    ELSE ListFederationPeers(Tail(rows), keyring, dbPath,
                             Append(listed, ScannedPeer(Head(rows), <<>>)))

\* a call on the peer store: its arguments, the outcomes of the database and
\* of the remote call, the steps it took, what it returned, and whether an
\* add or a remove found a row of that name
PeerCall(op, name, peer, db, remote, steps, err, out, existed) ==
    [op |-> op, name |-> name, peer |-> peer, db |-> db, remote |-> remote,
     steps |-> steps, err |-> err, out |-> out, existed |-> existed]
NoPeerCall == PeerCall("none", <<>>, <<>>, "none", "none", <<>>, "nil", <<>>, FALSE)

\* the DoltStore of the peers: opened at one path, with or without a keyring
OpenPeerStore == OpenStore /\ stDbPath = <<"d", "1">>

\* an empty table, no remote
PeersIdle ==
    /\ federation_peers = <<>>
    /\ remotes = [n \in NamesTried |-> <<>>]
    /\ fpCall = NoPeerCall
    /\ written = [n \in NamesTried |-> <<>>]

\* an AddFederationPeer that does not validate the name
AddFederationPeerNoValidate(peer) ==
    \E nonce \in PeerNonces(peer.Password), db \in DbOutcomes, remote \in AddRemoteOutcomes(remotes, peer.Name) :
       LET enc == IF peer.Password # <<>>
                  THEN encryptPassword(stKeyring, stDbPath, peer.Password, nonce)
                  ELSE [ct |-> <<>>, err |-> "nil"]
       IN /\ federation_peers' = IF db = "ok"
                                 THEN Upsert(federation_peers, PeerRow(peer, enc.ct))
                                 ELSE federation_peers
          /\ written' = IF db = "ok" THEN [written EXCEPT ![peer.Name] = <<peer>>]
                        ELSE written
          /\ remotes' = IF db = "ok" /\ remote = "nil"
                        THEN [remotes EXCEPT ![peer.Name] = <<peer.RemoteURL>>]
                        ELSE remotes
          /\ fpCall' = PeerCall("add", peer.Name, <<peer>>, db, remote,
                                <<"encryptPassword", "upsert", "AddRemote">>,
                                IF db = "ok" THEN "nil" ELSE "failed to add federation peer",
                                <<>>, RowsNamed(federation_peers, peer.Name) # <<>>)
          /\ UNCHANGED notPeers

\* s.AddFederationPeer(ctx, peer)
AddFederationPeer(peer) ==
    IF validatePeerName(peer.Name) # "nil"
    THEN /\ fpCall' = PeerCall("add", peer.Name, <<peer>>, "none", "none",
                               <<"validatePeerName">>, "invalid peer name",
                               <<>>, RowsNamed(federation_peers, peer.Name) # <<>>)
         /\ UNCHANGED <<notPeers, federation_peers, remotes, written>>
    ELSE \E nonce \in PeerNonces(peer.Password), db \in DbOutcomes,
            remote \in AddRemoteOutcomes(remotes, peer.Name) :
       LET enc == IF peer.Password # <<>>
                  THEN encryptPassword(stKeyring, stDbPath, peer.Password, nonce)
                  ELSE [ct |-> <<>>, err |-> "nil"]
           encrypts == IF peer.Password # <<>> THEN <<"encryptPassword">> ELSE <<>>
       IN IF enc.err # "nil"
          THEN /\ fpCall' = PeerCall("add", peer.Name, <<peer>>, "none", "none",
                                     <<"validatePeerName">> \o encrypts,
                                     "failed to encrypt password", <<>>,
                                     RowsNamed(federation_peers, peer.Name) # <<>>)
               /\ UNCHANGED <<notPeers, federation_peers, remotes, written>>
          ELSE IF db = "fail"
          THEN /\ fpCall' = PeerCall("add", peer.Name, <<peer>>, db, "none",
                                     <<"validatePeerName">> \o encrypts \o <<"upsert">>,
                                     "failed to add federation peer", <<>>,
                                     RowsNamed(federation_peers, peer.Name) # <<>>)
               /\ UNCHANGED <<notPeers, federation_peers, remotes, written>>
          ELSE /\ federation_peers' = Upsert(federation_peers, PeerRow(peer, enc.ct))
               /\ written' = [written EXCEPT ![peer.Name] = <<peer>>]
               /\ remotes' = IF remote = "nil"
                             THEN [remotes EXCEPT ![peer.Name] = <<peer.RemoteURL>>]
                             ELSE remotes
               /\ fpCall' = PeerCall("add", peer.Name, <<peer>>, db, remote,
                                     <<"validatePeerName">> \o encrypts
                                         \o <<"upsert", "AddRemote">>,
                                     IF remote \in {"nil", "already exists"}
                                     THEN "nil" ELSE "failed to add dolt remote",
                                     <<>>, RowsNamed(federation_peers, peer.Name) # <<>>)
               /\ UNCHANGED notPeers

\* s.GetFederationPeer(ctx, name)
GetFederationPeerCall(name) ==
    \E db \in DbOutcomes :
       LET got == IF db = "ok"
                  THEN GetFederationPeer(federation_peers, stKeyring, stDbPath, name)
                  ELSE [peer |-> <<>>, err |-> "failed to get federation peer"]
       IN /\ fpCall' = PeerCall("get", name, <<>>, db, "none", <<"query">>,
                                got.err, got.peer, FALSE)
          /\ UNCHANGED <<notPeers, federation_peers, remotes, written>>

\* s.ListFederationPeers(ctx)
ListFederationPeersCall ==
    \E db \in DbOutcomes :
       LET got == IF db = "ok"
                  THEN ListFederationPeers(OrderByName(federation_peers, NameOrder),
                                           stKeyring, stDbPath, <<>>)
                  ELSE [peers |-> <<>>, err |-> "failed to list federation peers"]
       IN /\ fpCall' = PeerCall("list", <<>>, <<>>, db, "none", <<"query">>,
                                got.err, got.peers, FALSE)
          /\ UNCHANGED <<notPeers, federation_peers, remotes, written>>

\* a RemoveFederationPeer that returns the error of RemoveRemote
RemoveFederationPeerStrict(name) ==
    \E db \in DbOutcomes, remote \in RemoveRemoteOutcomes(remotes, name) :
       IF db = "fail"
       THEN /\ fpCall' = PeerCall("remove", name, <<>>, db, "none", <<"delete">>,
                                  "failed to remove federation peer", <<>>,
                                  RowsNamed(federation_peers, name) # <<>>)
            /\ UNCHANGED <<notPeers, federation_peers, remotes, written>>
       ELSE /\ federation_peers' = DeleteNamed(federation_peers, name)
            /\ written' = [written EXCEPT ![name] = <<>>]
            /\ remotes' = IF remote = "nil" THEN [remotes EXCEPT ![name] = <<>>]
                          ELSE remotes
            /\ fpCall' = PeerCall("remove", name, <<>>, db, remote,
                                  <<"delete", "RemoveRemote">>,
                                  IF remote = "nil" THEN "nil"
                                  ELSE "failed to remove dolt remote",
                                  <<>>, RowsNamed(federation_peers, name) # <<>>)
            /\ UNCHANGED notPeers

\* s.RemoveFederationPeer(ctx, name)
RemoveFederationPeer(name) ==
    \E db \in DbOutcomes, remote \in RemoveRemoteOutcomes(remotes, name) :
       IF db = "fail"
       THEN /\ fpCall' = PeerCall("remove", name, <<>>, db, "none", <<"delete">>,
                                  "failed to remove federation peer", <<>>,
                                  RowsNamed(federation_peers, name) # <<>>)
            /\ UNCHANGED <<notPeers, federation_peers, remotes, written>>
       ELSE /\ federation_peers' = DeleteNamed(federation_peers, name)
            /\ written' = [written EXCEPT ![name] = <<>>]
            /\ remotes' = IF remote = "nil" THEN [remotes EXCEPT ![name] = <<>>]
                          ELSE remotes
            /\ fpCall' = PeerCall("remove", name, <<>>, db, remote,
                                  <<"delete", "RemoveRemote">>, "nil", <<>>,
                                  RowsNamed(federation_peers, name) # <<>>)
            /\ UNCHANGED notPeers

PeersNext ==
    \/ \E peer \in PeersTried : AddFederationPeer(peer)
    \/ \E name \in NamesTried : GetFederationPeerCall(name)
    \/ ListFederationPeersCall
    \/ \E name \in NamesTried : RemoveFederationPeer(name)

\* the ways a stored password_encrypted is altered
RowAlterations == {"short1", "body"}

\* the value password_encrypted of one row is altered outside the store
CorruptRow ==
    \E i \in DOMAIN federation_peers, how \in RowAlterations :
       /\ federation_peers[i].password_encrypted # <<>>
       /\ \A j \in DOMAIN federation_peers :
             decryptPassword(stKeyring, stDbPath,
                             federation_peers[j].password_encrypted).err = "nil"
       /\ federation_peers' =
             [federation_peers EXCEPT
                 ![i].password_encrypted = Altered(federation_peers[i].password_encrypted, how)]
       /\ UNCHANGED <<notPeers, remotes, fpCall, written>>

----------------------------------------------------------------------------
(* ValidateRequestSize *)

\* MaxRequestSize: 10MB
MaxRequestSize == 10 * 1024 * 1024

\* a ValidateRequestSize that checks the size of the arguments only
ValidateRequestSizeArgsOnly(req) ==
    IF req.Args > MaxRequestSize THEN "request payload too large" ELSE "nil"

\* ValidateRequestSize; a request is the length of each of its fields, and a
\* sum of lengths of values held in memory stays below the 64-bit int range
ValidateRequestSize(req) ==
    LET argsSize == req.Args
    IN IF argsSize > MaxRequestSize
       THEN "request payload too large"
       ELSE LET totalSize == argsSize + req.Operation + req.Actor + req.Cwd
                                 + req.ExpectedDB
            IN IF totalSize > MaxRequestSize THEN "request too large" ELSE "nil"

\* the requests tried: lengths around the limit, and fields far above it
RequestsTried ==
    [Args : {0, MaxRequestSize - 2, MaxRequestSize - 1, MaxRequestSize,
             MaxRequestSize + 1},
     Operation : {0, 1, 2}, Actor : {0, 1}, Cwd : {0, 1}, ExpectedDB : {0, 1},
     RequestID : {0, MaxRequestSize + 1}, AuthToken : {0, MaxRequestSize + 1},
     Signature : {0, MaxRequestSize + 1}]

SizeIdle == szReq = <<>> /\ szErr = "none"

\* a request arrives
ReceiveRequest == szReq \in RequestsTried /\ szErr = "none"

\* ValidateRequestSize(req)
ValidateRequestSizeCall ==
    /\ szErr = "none"
    /\ szErr' = ValidateRequestSize(szReq)
    /\ UNCHANGED <<notSize, szReq>>

SizeNext == ValidateRequestSizeCall

----------------------------------------------------------------------------
(* SecureWipe on a buffer of its caller *)

\* the byte values tried
WipeBytes == {0, 1, 255}

RECURSIVE BytesUpTo(_)
\* the byte sequences of length at most n
BytesUpTo(n) ==
    IF n = 0 THEN {<<>>}
    ELSE LET shorter == BytesUpTo(n - 1)
         IN shorter \cup {Append(b, x) : b \in shorter, x \in WipeBytes}

\* the memory of a caller: an array of at most MaxBuf bytes of which the slice
\* `data` is a part, or no array at all and the nil slice
BuffersTried ==
    {[nil |-> TRUE, pre |-> <<>>, data |-> <<>>, post |-> <<>>]}
       \cup UNION {{[nil |-> FALSE, pre |-> SubSeq(a, 1, cut[1]),
                      data |-> SubSeq(a, cut[1] + 1, cut[2]),
                      post |-> SubSeq(a, cut[2] + 1, Len(a))] :
                        cut \in {c \in (0..Len(a)) \X (0..Len(a)) : c[1] <= c[2]}} :
                    a \in BytesUpTo(MaxBuf)}

WipeIdle ==
    /\ wpBuf = [nil |-> TRUE, pre |-> <<>>, data |-> <<>>, post |-> <<>>]
    /\ wpBefore = <<>>
    /\ wpErr = "none"

\* a caller holds a buffer
HoldBuffer == wpBuf \in BuffersTried /\ wpBefore = <<>> /\ wpErr = "none"

\* SecureWipe(data): the loop writes data[i] for the indices of `range data`,
\* none for a nil or empty slice; an index outside the slice would panic
SecureWipeCall ==
    /\ wpErr = "none"
    /\ wpBefore' = <<wpBuf>>
    /\ LET wiped == SecureWipe(wpBuf.data)
       IN /\ wpBuf' = [wpBuf EXCEPT !.data = wiped]
          /\ wpErr' = IF DOMAIN wiped \subseteq DOMAIN wpBuf.data THEN "returned"
                      ELSE "panic"
    /\ UNCHANGED notWipe

\* the caller lets go of the buffer and holds another one
NextBuffer ==
    /\ wpErr # "none"
    /\ \E data \in BytesUpTo(MaxBuf) :
          wpBuf' = [nil |-> FALSE, pre |-> <<>>, data |-> data, post |-> <<>>]
    /\ wpBefore' = <<>>
    /\ wpErr' = "none"
    /\ UNCHANGED notWipe

WipeNext == SecureWipeCall \/ NextBuffer

----------------------------------------------------------------------------
(* ValidateRequestAuth on requests submitted again *)

\* what a step of this part leaves alone
notReplay == <<rlVars, fedVars, authVars, signVars, credVars, vaultVars, nameVars, peerVars,
              sizeVars, wipeVars>>

RequestIDs == {<<"r", "1">>, <<"r", "2">>}
ExpectedDBs == {<<>>, <<"d">>}

\* a request with the fields ValidateRequestAuth does not read
FullRequest(r, id, db) ==
    [Operation |-> r.Operation, Args |-> r.Args, Actor |-> r.Actor, Cwd |-> r.Cwd,
     AuthToken |-> r.AuthToken, Signature |-> r.Signature, Timestamp |-> r.Timestamp,
     RequestID |-> id, ExpectedDB |-> db]

\* the fields of a request other than RequestID and ExpectedDB
Submitted(req) ==
    WithAuth(req, req.AuthToken, req.Signature, req.Timestamp)

\* the requests clients send: an exempt and a protected operation, with no,
\* a made-up or the right token, unsigned, signed, or signed for another time
ReplayRequests ==
    UNION {{FullRequest(WithAuth(f, token, signature, ts), <<"r", "1">>, <<>>) :
               token \in {EmptyString, ForgedToken, amToken},
               signature \in {EmptySignature, SignRequest(amSecretKey, f, 1),
                              SignRequest(amSecretKey, f, 2)},
               ts \in {0, 1}} :
           f \in [Operation : {OpPing, OpList}, Args : {<<>>, <<"a">>},
                  Actor : {<<"b">>}, Cwd : {<<"c">>}]}

\* the request again, under any RequestID and ExpectedDB
Resubmissions(req) ==
    {FullRequest(req, id, db) : id \in RequestIDs, db \in ExpectedDBs}

\* requests of other clients
UnrelatedRequests ==
    LET f == [Operation |-> OpList, Args |-> <<"a", "|", "1">>, Actor |-> <<>>,
              Cwd |-> <<"c">>]
    IN {FullRequest(WithAuth(f, amToken, SignRequest(amSecretKey, f, 2), 2),
                    <<"r", "2">>, <<>>),
        FullRequest(WithAuth(f, ShortToken, ForgedSignature, 2), <<"r", "1">>, <<"d">>)}

\* the record of one ValidateRequestAuth call of the running instance
Validation(req) ==
    [inst |-> starts, now |-> wallClock, req |-> req, err |-> ValidateRequestAuth(req)]

ReplayIdle == wallClock = 0 /\ rpFirst = <<>> /\ rpLast = <<>> /\ rpOther = FALSE

\* a second passes
AdvanceTime ==
    /\ wallClock < MaxNow
    /\ wallClock' = wallClock + 1
    /\ UNCHANGED <<notReplay, rpFirst, rpLast, rpOther>>

\* ValidateRequestAuth(req), the call kept for comparison
ValidateKept ==
    /\ amAlive
    /\ rpFirst = <<>>
    /\ \E req \in ReplayRequests :
          /\ rpFirst' = <<Validation(req)>>
          /\ rpLast' = <<Validation(req)>>
    /\ UNCHANGED <<notReplay, wallClock, rpOther>>

\* ValidateRequestAuth(req) on the kept request submitted again
ValidateAgain ==
    /\ amAlive
    /\ rpFirst # <<>>
    /\ \E req \in Resubmissions(rpFirst[1].req) : rpLast' = <<Validation(req)>>
    /\ UNCHANGED <<notReplay, wallClock, rpFirst, rpOther>>

\* ValidateRequestAuth(req) on a request of another client
ValidateOther ==
    /\ amAlive
    /\ \E req \in UnrelatedRequests : rpLast' = <<Validation(req)>>
    /\ rpOther' = (rpFirst # <<>>)
    /\ UNCHANGED <<notReplay, wallClock, rpFirst>>

\* the daemon has started for the first time: the state NewAuthManager leaves
Started ==
    \E startTime \in StartTimes :
       LET secret == RandomSecret(1)
           token == generateToken(secret, startTime)
       IN /\ tokenFile = <<token>>
          /\ amAlive = TRUE
          /\ amSecretKey = secret
          /\ amToken = token
          /\ amStartTime = startTime
          /\ starts = 1
          /\ keysGenerated = 1
          /\ cleaned = FALSE
          /\ Ready

ReplayNext ==
    \/ AdvanceTime
    \/ ValidateKept
    \/ ValidateAgain
    \/ ValidateOther

----------------------------------------------------------------------------
(* RateLimiter.GetStats *)

\* what a step of GetStats leaves alone
notStats == <<fnVars, fedVars, authVars, clock, maxRequests, windowDuration, requests,
              lastCleanup, rlMu, allowPc, allowNow, allowClient, allowRet, nextTick,
              bgPc, bgNow, calls, admitted, untouched, allowFirst>>

\* time.Duration.String() of d units of 5 minutes
DurationString(d) ==
    LET m == 5 * d
    IN IF m = 0 THEN <<"0", "s">>
       ELSE (IF m >= 60 THEN FormatNat(m \div 60) \o <<"h">> ELSE <<>>)
               \o FormatNat(m % 60) \o <<"m", "0", "s">>

\* a GetStats that reads the map without the lock
StatsNoLock ==
    /\ statsPc = "idle"
    /\ statsPc' = "count"
    /\ UNCHANGED <<notStats, rlReaders, statsActive, statsOut>>

\* GetStats: rl.mu.RLock(), which waits for the holder of the lock
StatsRLock ==
    /\ statsPc = "idle"
    /\ rlMu = "free"
    /\ rlReaders' = rlReaders + 1
    /\ statsPc' = "count"
    /\ UNCHANGED <<notStats, statsActive, statsOut>>

\* GetStats: activeClients := len(rl.requests)
StatsCount ==
    /\ statsPc = "count"
    /\ statsActive' = Cardinality(DOMAIN requests)
    /\ statsPc' = "sum"
    /\ UNCHANGED <<notStats, rlReaders, statsOut>>

\* GetStats: totalRequests += len(state.requests) for every client; return
\* the map; deferred RUnlock
StatsReturn ==
    /\ statsPc = "sum"
    /\ LET totalRequests ==
              SumOver([c \in DOMAIN requests |-> Len(requests[c].requests)],
                      DOMAIN requests)
       IN statsOut' = <<[active_clients |-> statsActive,
                         total_requests |-> totalRequests,
                         max_requests |-> maxRequests,
                         window_duration |-> DurationString(windowDuration)]>>
    /\ statsActive' = 0
    /\ rlReaders' = IF rlReaders > 0 THEN rlReaders - 1 ELSE 0
    /\ statsPc' = "idle"
    /\ UNCHANGED notStats

\* the goroutine calling Allow while GetStats and Reset are called
StatsCaller == "g1"

\* one caller of Allow and the background sweep
QuietNext ==
    \/ Tick
    \/ \E c \in Clients : AllowBegin(StatsCaller, c)
    \/ AllowEnter(StatsCaller)
    \/ AllowDeny(StatsCaller)
    \/ AllowPass(StatsCaller)
    \/ AllowRecord(StatsCaller)
    \/ BgWake
    \/ BgSweep

\* one caller of Allow, the background sweep, Reset and GetStats
StatsNext ==
    \/ Tick
    \/ \E c \in Clients : AllowBegin(StatsCaller, c)
    \/ AllowEnter(StatsCaller)
    \/ AllowDeny(StatsCaller)
    \/ AllowPass(StatsCaller)
    \/ AllowRecord(StatsCaller)
    \/ BgWake
    \/ BgSweep
    \/ Reset
    \/ StatsRLock
    \/ StatsCount
    \/ StatsReturn

----------------------------------------------------------------------------
(* Specifications *)

\* the components a specification is not about stay as constructed
MoreIdle == WipeIdle /\ ReplayIdle
FnIdle == SignIdle /\ CredIdle /\ VaultIdle /\ NameIdle /\ PeersIdle /\ SizeIdle /\ MoreIdle
SvcIdle == RLIdle /\ FedIdle /\ AuthIdle

InitRL == RLInit /\ FedIdle /\ AuthIdle /\ FnIdle
InitFed == RLIdle /\ FedIdle /\ AuthIdle /\ FnIdle
InitAuth == RLIdle /\ FedIdle /\ AuthIdle /\ FnIdle
InitRLStats == RLInit /\ FedIdle /\ AuthIdle /\ FnIdle
InitRLFair == RLInit /\ FedIdle /\ AuthIdle /\ FnIdle
InitSign == SvcIdle /\ NewRequestSigner /\ CredIdle /\ VaultIdle /\ NameIdle /\ PeersIdle /\ SizeIdle /\ MoreIdle
InitSignResp == SvcIdle /\ NewRequestSigner /\ CredIdle /\ VaultIdle /\ NameIdle /\ PeersIdle /\ SizeIdle /\ MoreIdle
InitCred == SvcIdle /\ SignIdle /\ OpenStore /\ VaultIdle /\ NameIdle /\ PeersIdle /\ SizeIdle /\ MoreIdle
InitCredAltered == SvcIdle /\ SignIdle /\ OpenStore /\ VaultIdle /\ NameIdle /\ PeersIdle /\ SizeIdle /\ MoreIdle
InitVault == SvcIdle /\ SignIdle /\ CredIdle /\ VaultIdle /\ NameIdle /\ PeersIdle /\ SizeIdle /\ MoreIdle
InitVaultWipe == SvcIdle /\ SignIdle /\ CredIdle /\ VaultIdle /\ NameIdle /\ PeersIdle /\ SizeIdle /\ MoreIdle
InitName == SvcIdle /\ SignIdle /\ CredIdle /\ VaultIdle /\ ChooseName /\ PeersIdle /\ SizeIdle /\ MoreIdle
InitPeers == SvcIdle /\ SignIdle /\ OpenPeerStore /\ VaultIdle /\ NameIdle /\ PeersIdle /\ SizeIdle /\ MoreIdle
InitPeersAltered == SvcIdle /\ SignIdle /\ OpenPeerStore /\ VaultIdle /\ NameIdle /\ PeersIdle /\ SizeIdle /\ MoreIdle
InitSize == SvcIdle /\ SignIdle /\ CredIdle /\ VaultIdle /\ NameIdle /\ PeersIdle /\ ReceiveRequest /\ MoreIdle
InitWipe == SvcIdle /\ SignIdle /\ CredIdle /\ VaultIdle /\ NameIdle /\ PeersIdle /\ SizeIdle /\ HoldBuffer /\ ReplayIdle
InitReplay == RLIdle /\ FedIdle /\ Started /\ FnIdle

\* the rate limiter under concurrent Allow calls and the background sweep
SpecRL == InitRL /\ [][RLNext]_vars

\* the limiter with administrative resets
SpecRLReset == InitRL /\ [][RLNext \/ Reset]_vars

\* the rate limiter whose traffic stops: time passes, the ticker fires, a
\* goroutine inside Allow runs on to its return, and cleanupLoop, waiting
\* for the lock again and again, acquires it
SpecRLFair ==
    /\ InitRLFair
    /\ [][QuietNext]_vars
    /\ WF_vars(Tick)
    /\ WF_vars(BgWake)
    /\ SF_vars(BgSweep)
    /\ WF_vars(AllowEnter(StatsCaller))
    /\ WF_vars(AllowDeny(StatsCaller))
    /\ WF_vars(AllowPass(StatsCaller))
    /\ WF_vars(AllowRecord(StatsCaller))

\* the rate limiter with Reset and GetStats called while it serves
SpecRLStats == InitRLStats /\ [][StatsNext]_vars

\* concurrent PushWithCredentials / PullWithCredentials calls
SpecFed == InitFed /\ [][FedNext]_vars

\* the same, where every started call keeps running, wrapped operations
\* terminate, and sync.Mutex hands the lock to a goroutine that keeps waiting
SpecFedFair ==
    /\ SpecFed
    /\ \A g \in Goroutines :
         /\ SF_vars(FedLock(g))
         /\ WF_vars(FedSetEnv(g))
         /\ WF_vars(\E ok \in BOOLEAN : FedFnEnd(g, ok))
         /\ WF_vars(FedUpdateSync(g))
         /\ WF_vars(FedCleanup(g))
         /\ WF_vars(FedWipe(g))
         /\ WF_vars(FedUnlock(g))

\* daemon starts, restarts and the calls served by the AuthManager
SpecAuth == InitAuth /\ [][AuthNext]_vars

\* a RequestSigner signing and verifying requests
SpecSign == InitSign /\ [][SignNext]_vars

\* a RequestSigner signing and verifying responses
SpecSignResp == InitSignResp /\ [][SignRespNext]_vars

\* a DoltStore encrypting and decrypting peer passwords
SpecCred == InitCred /\ [][CredNext]_vars

\* the same, where stored ciphertexts get altered
SpecCredAltered == InitCredAltered /\ [][CredNext \/ AlterCiphertext]_vars

\* vaults constructed over the keyring file and asked for keys
SpecVault == InitVault /\ [][VaultNext]_vars

\* vaults whose callers wipe the key buffers they were given
SpecVaultWipe == InitVaultWipe /\ [][VaultWipeNext]_vars

\* validatePeerName applied to names
SpecName == InitName /\ [][NameNext]_vars

\* the peer store of one DoltStore, its calls one after the other
SpecPeers == InitPeers /\ [][PeersNext]_vars

\* the same, the stored ciphertexts being altered outside the store
SpecPeersAltered == InitPeersAltered /\ [][PeersNext \/ CorruptRow]_vars

\* ValidateRequestSize applied to a request
SpecSize == InitSize /\ [][SizeNext]_vars

\* SecureWipe called on any buffer
SpecWipe == InitWipe /\ [][WipeNext]_vars

\* a running daemon validating requests while time passes
SpecReplay == InitReplay /\ [][ReplayNext]_vars

----------------------------------------------------------------------------
(* AuthManager: properties *)

Diagnostic == {OpPing, OpHealth, OpMetrics}

\* a ValidateRequestAuth call has returned authRes for the request authReq
Validated == authRes # "none"

\* C7: for a request whose operation is not ping, health or metrics,
\* ValidateRequestAuth succeeds only if AuthToken is non-empty and equal to the
\* issued token; an empty AuthToken gets the "missing" error, a non-empty one
\* different from the issued token the "invalid" error, and the two differ.
C7_TokenRequired ==
    (Validated /\ authReq.Operation \notin Diagnostic) =>
        /\ authRes = ErrNil =>
              authReq.AuthToken # EmptyString /\ authReq.AuthToken = amToken
        /\ authReq.AuthToken = EmptyString => authRes = ErrMissing
        /\ (authReq.AuthToken # EmptyString /\ authReq.AuthToken # amToken) =>
              authRes = ErrInvalid
        /\ ErrMissing # ErrInvalid

\* C7 witness: a list request with a made-up 32-character token and the right
\* signature was rejected as invalid
C7_Witness ==
    /\ Validated
    /\ authReq.Operation = OpList
    /\ authReq.AuthToken = ForgedToken
    /\ authReq.Timestamp > 0
    /\ authReq.Signature = SignRequest(amSecretKey, authReq, authReq.Timestamp)
    /\ authRes = ErrInvalid

\* C8: a request whose operation is ping, health or metrics is accepted
\* whatever its AuthToken, Signature and Timestamp, and no other operation is
\* exempt: with a token that is not the issued one it is rejected.
C8_DiagnosticExempt ==
    Validated =>
        /\ authReq.Operation \in Diagnostic => authRes = ErrNil
        /\ (authReq.Operation \notin Diagnostic /\ authReq.AuthToken # amToken) =>
              authRes # ErrNil

\* C8 witness: a metrics request with a made-up token, a made-up signature and
\* a negative timestamp was accepted
C8_Witness ==
    /\ Validated
    /\ authReq.Operation = OpMetrics
    /\ authReq.AuthToken = ForgedToken
    /\ authReq.Signature = ForgedSignature
    /\ authReq.Timestamp < 0
    /\ authRes = ErrNil

\* the verdict on a request with the valid token and a signature to check
SignatureDecides ==
    /\ authRes = ErrNil <=>
          authReq.Signature = SignRequest(amSecretKey, authReq, authReq.Timestamp)
    /\ authRes # ErrNil => authRes = ErrSignature
    /\ ErrSignature \notin {ErrMissing, ErrInvalid}

\* C9: a non-diagnostic request with the valid token, a nonzero Timestamp
\* (positive or negative) and a non-empty Signature is accepted if and only if
\* the Signature is the signer's signature of the request at that timestamp,
\* and is otherwise rejected with the signature error.
C9_SignatureCheckedNonzero ==
    (/\ Validated
     /\ authReq.Operation \notin Diagnostic
     /\ authReq.AuthToken = amToken
     /\ authReq.Timestamp # 0
     /\ authReq.Signature # EmptySignature) => SignatureDecides

\* C10: from construction to teardown the token, a 32-character string, and the
\* secret key do not change under GetToken, ValidateToken, ValidateRequestAuth,
\* Sign* and Verify* calls; GetToken returns that token; the token changes
\* only by a restart.
C10_TokenStable ==
    /\ [](amAlive => /\ amToken.len = 32
                     /\ gotToken # EmptyString => gotToken = amToken)
    /\ [][(amAlive /\ amAlive') =>
             (amToken' = amToken /\ amSecretKey' = amSecretKey)]_vars
    /\ [][amToken' # amToken => (~amAlive /\ amAlive' /\ starts' = starts + 1)]_vars

\* C10 witness: GetToken has returned the token of an instance started after a
\* restart, whose file has been removed since
C10_Witness ==
    /\ amAlive
    /\ starts = 2
    /\ tokenFile = <<>>
    /\ gotToken = amToken
    /\ gotToken.len = TokenLen

\* a step that constructs an AuthManager after an earlier instance has ended
Restart == ~amAlive /\ amAlive' /\ starts >= 1

\* C11: an AuthManager constructed while the file left by the previous
\* instance is present has the previous instance's SecretKey, and a new random
\* key is generated only when the file is absent.
C11_RestartLoadsKey ==
    /\ [][(Restart /\ tokenFile # <<>>) => amSecretKey' = amSecretKey]_vars
    /\ [][keysGenerated' # keysGenerated => tokenFile = <<>>]_vars

\* C12: while an instance runs and its file exists, the file holds the
\* instance's 32-byte SecretKey.
C12_FileHoldsSecretKey ==
    (amAlive /\ tokenFile # <<>>) =>
        (tokenFile[1] = amSecretKey /\ tokenFile[1].len = SecretSize)

\* C13: after every successful NewAuthManager the token file holds the value
\* GetToken returns, and a non-diagnostic request with the file's content as
\* AuthToken and no signature is accepted by that instance.
C13_FileHoldsToken ==
    /\ [][(~amAlive /\ amAlive') => tokenFile' = <<amToken'>>]_vars
    /\ [](amAlive /\ tokenFile # <<>> =>
            /\ tokenFile[1] = amToken
            /\ gotToken # EmptyString => gotToken = tokenFile[1]
            /\ (/\ Validated
                /\ authReq.Operation \notin Diagnostic
                /\ authReq.AuthToken = tokenFile[1]
                /\ authReq.Signature = EmptySignature) => authRes = ErrNil)

\* C13 witness: after a restart with the file left in place, a list request
\* with the file's content as token and no signature was accepted
C13_Witness ==
    /\ amAlive
    /\ starts = 2
    /\ keysGenerated = 1
    /\ tokenFile # <<>>
    /\ Validated
    /\ authReq.Operation = OpList
    /\ authReq.AuthToken = tokenFile[1]
    /\ authReq.Signature = EmptySignature
    /\ authRes = ErrNil

\* C24: after Cleanup no file of the AuthManager remains, and the next
\* NewAuthManager generates a fresh random SecretKey, different from the
\* previous instance's, and issues a token different from the previous one.
C24_CleanupForcesFreshKey ==
    /\ [](cleaned => tokenFile = <<>>)
    /\ [][(Restart /\ cleaned) =>
            /\ keysGenerated' = keysGenerated + 1
            /\ amSecretKey' = RandomSecret(keysGenerated')
            /\ amSecretKey' # amSecretKey
            /\ amSecretKey' # amToken
            /\ amToken' # amToken]_vars

\* C24 witness: the second instance, started after the first one's Cleanup,
\* runs with the second random secret
C24_Witness ==
    /\ amAlive
    /\ starts = 2
    /\ keysGenerated = 2
    /\ amSecretKey = RandomSecret(2)

----------------------------------------------------------------------------
(* RequestSigner: properties *)

Signed(i) == signedReq[i] # <<>>

\* C14: VerifyRequest(r, t, SignRequest(r, t)) succeeds for every request r and
\* timestamp t; two SignRequest calls with the same request, timestamp and key
\* return the same 64-character signature, and a SignRequest or VerifyRequest
\* call changes neither the key nor anything outside the signer.
C14_SignVerifyRoundTrip ==
    /\ [](\A i \in Slots, j \in Slots :
            (Signed(i) /\ signedReq[i] = signedReq[j]) =>
                /\ signedSig[i] = signedSig[j]
                /\ signedSig[i].len = HexLen(HmacSize)
                /\ verifyOf = <<i, j>> => verifyRes = "nil")
    /\ [][rsSecretKey' = rsSecretKey /\ tokenFile' = tokenFile]_vars

\* C14 witness: a request whose Args contain '|' was signed twice and the
\* signature verified against it
C14_Witness ==
    /\ Signed(1)
    /\ signedReq[1][1].req.Args = <<"a", "|", "1">>
    /\ signedReq[2] = signedReq[1]
    /\ signedSig[2] = signedSig[1]
    /\ verifyOf = <<1, 2>>
    /\ verifyRes = "nil"

\* C15: two (request, timestamp) pairs that differ in a signed field have
\* different signing payloads and signatures, and the signature of one does
\* not verify for the other, whatever the field values, '|' included.
C15_SignedFieldsBound ==
    \A i \in Slots, j \in Slots :
        (Signed(i) /\ Signed(j) /\ signedReq[i] # signedReq[j]) =>
            /\ requestPayload(signedReq[i][1].req, signedReq[i][1].ts)
                 # requestPayload(signedReq[j][1].req, signedReq[j][1].ts)
            /\ signedSig[i] # signedSig[j]
            /\ verifyOf = <<i, j>> => verifyRes # "nil"

RespSigned(i) == respIn[i] # <<>>
\* the signed triple of the response call of slot i
Triple(i) == <<respIn[i][1].resp.Success, respIn[i][1].resp.Error, respIn[i][1].ts>>

\* C25: the response signature is a function of (Success, Error, unix
\* timestamp) alone: a signature verifies for the response and timestamp it
\* was made from, responses differing only in Data have the same signature,
\* and two triples that differ have different payloads and signatures, also
\* when Error contains '|'.
C25_ResponseSignature ==
    \A i \in Slots, j \in Slots :
        (RespSigned(i) /\ RespSigned(j)) =>
            /\ Triple(i) = Triple(j) =>
                  /\ respSig[i] = respSig[j]
                  /\ respVerOf = <<i, j>> => respVerRes = "nil"
            /\ Triple(i) # Triple(j) =>
                  /\ responsePayload(respIn[i][1].resp, respIn[i][1].ts)
                       # responsePayload(respIn[j][1].resp, respIn[j][1].ts)
                  /\ respSig[i] # respSig[j]
                  /\ respVerOf = <<i, j>> => respVerRes # "nil"

\* C25 witness: two responses with '|' in Error that differ only in Data got
\* the same signature, and the signature of one verified for the other
C25_Witness ==
    /\ RespSigned(1) /\ RespSigned(2)
    /\ respIn[1][1].resp.Error = <<"e", "|", "1">>
    /\ Triple(1) = Triple(2)
    /\ respIn[1][1].resp.Data # respIn[2][1].resp.Data
    /\ respSig[1] = respSig[2]
    /\ respVerOf = <<1, 2>>
    /\ respVerRes = "nil"

----------------------------------------------------------------------------
(* Credential encryption, FileKeyring, validatePeerName: properties *)

\* C16: decryptPassword(encryptPassword(p)) returns p without error for every
\* password p, the store opened with or without its keyring at either end;
\* for the empty password encryptPassword returns no ciphertext, and
\* decryptPassword of the empty ciphertext returns the empty password without
\* error.
C16_EncryptDecryptRoundTrip ==
    /\ pwIn # <<>> =>
          /\ encrypted.err = "nil"
          /\ pwIn[1] = <<>> <=> encrypted.ct = <<>>
    /\ decOut # <<>> =>
          /\ decOut[1].err = "nil"
          /\ decOut[1].pw = pwIn[1]

\* C16 witness: a password containing '|' was encrypted by a store with a
\* keyring and decrypted to itself by the store reopened without one
C16_Witness ==
    /\ pwIn = <<<<"p", "|", "w">>>>
    /\ Len(encrypted.ct) > NonceSize
    /\ encrypted.ct[NonceSize + 1].key = deriveKeyFromDBPath(stDbPath)
    /\ stKeyring = <<>>
    /\ decOut # <<>>
    /\ decOut[1].pw = <<"p", "|", "w">>

\* C26: decryptPassword returns 'ciphertext too short' for a non-empty
\* ciphertext shorter than the nonce, and the distinct 'failed to decrypt' for
\* a ciphertext of at least nonce size that was modified after sealing or
\* sealed under another key; no plaintext is returned in either case.
C26_DecryptErrors ==
    decOut # <<>> =>
        /\ tamper \in {"short1", "short11"} =>
              (decOut[1].err = "ciphertext too short" /\ decOut[1].pw = <<>>)
        /\ tamper \in {"cut", "nonce", "body", "wrongkey"} =>
              (decOut[1].err = "failed to decrypt" /\ decOut[1].pw = <<>>)
        /\ tamper = "none" => decOut[1].err = "nil"

\* C26 witness: a ciphertext of 11 bytes was refused as too short
C26_Witness ==
    /\ decOut # <<>>
    /\ tamper = "short11"
    /\ Len(encrypted.ct) = NonceSize - 1
    /\ decOut[1].err = "ciphertext too short"

\* C17: GetKey("dolt-credentials", dbPath) returns the same 32 bytes from any
\* two vaults constructed for the same dbPath, each over a new or over an
\* existing keyring file, and on repeated calls.
C17_SameKeyAcrossVaults ==
    \A c \in Slots, d \in Slots :
        (/\ gk[c] # <<>> /\ gk[d] # <<>>
         /\ gk[c][1].service = DoltCredentials /\ gk[d][1].service = DoltCredentials
         /\ gk[c][1].dbPath = gk[d][1].dbPath) =>
            /\ gk[c][1].key = gk[d][1].key
            /\ gk[c][1].key.len = 32

\* C17 witness: the key was returned for the same dbPath by a vault that
\* created the keyring file and by a vault that found it
C17_Witness ==
    /\ gk[1] # <<>> /\ gk[2] # <<>>
    /\ gk[1][1].service = DoltCredentials /\ gk[2][1].service = DoltCredentials
    /\ gk[1][1].dbPath = gk[2][1].dbPath
    /\ gk[1][1].created /\ ~gk[2][1].created
    /\ gk[1][1].key = gk[2][1].key

\* C18: for two distinct (service, user) pairs with service other than
\* "dolt-credentials", GetKey of a vault returns different keys, for all
\* service and user strings, ':' included; and such a key is never the
\* master key.
C18_DistinctServiceKeys ==
    \A c \in Slots, d \in Slots :
        (/\ gk[c] # <<>> /\ gk[d] # <<>>
         /\ gk[c][1].dbPath = gk[d][1].dbPath
         /\ gk[c][1].service # DoltCredentials) =>
            /\ (/\ gk[d][1].service # DoltCredentials
                /\ <<gk[c][1].service, gk[c][1].user>> # <<gk[d][1].service, gk[d][1].user>>)
                  => gk[c][1].key # gk[d][1].key
            /\ gk[d][1].service = DoltCredentials => gk[c][1].key # gk[d][1].key

\* C19: StoreKey and DeleteKey return no error and change nothing: neither
\* the vaults nor the keyring files, so that GetKey returns for the same
\* vault, service and user the same key before and after them, and never a
\* key that was stored.
C19_StoreDeleteNoOps ==
    /\ [](krErr # <<>> => krErr[1].err = "nil")
    /\ [][krErr' # krErr => (kr' = kr /\ keyFiles' = keyFiles /\ gk' = gk)]_vars
    /\ [](\A c \in Slots, d \in Slots :
            (/\ gk[c] # <<>> /\ gk[d] # <<>>
             /\ gk[c][1].dbPath = gk[d][1].dbPath
             /\ gk[c][1].service = gk[d][1].service
             /\ gk[c][1].user = gk[d][1].user) => gk[c][1].key = gk[d][1].key)
    /\ [](\A c \in Slots :
            (gk[c] # <<>> /\ krErr # <<>>) => gk[c][1].key # krErr[1].keyData)

\* C19 witness: a key was stored for (service, user) and GetKey for the same
\* pair returned the derived key
C19_Witness ==
    /\ krErr # <<>>
    /\ krErr[1].op = "StoreKey"
    /\ gk[1] # <<>> /\ gk[2] # <<>>
    /\ gk[1][1].service = krErr[1].service /\ gk[1][1].user = krErr[1].user
    /\ gk[2][1].service = krErr[1].service /\ gk[2][1].user = krErr[1].user
    /\ gk[1][1].dbPath = gk[2][1].dbPath
    /\ gk[1][1].key = gk[2][1].key
    /\ gk[1][1].key # krErr[1].keyData

\* C27: the master key of a vault is never changed after construction: after
\* any GetKey, StoreKey and DeleteKey calls, and SecureWipe calls of callers
\* on buffers GetKey returned, the vault holds, and GetKey("dolt-credentials",
\* dbPath) returns, the key derived from the path.
C27_MasterKeyImmutable ==
    /\ \A v \in Vaults :
          kr[v] # <<>> => kr[v][1].masterKey = deriveKeyFromDBPath(kr[v][1].dbPath)
    /\ (gk[1] # <<>> /\ gk[1][1].service = DoltCredentials) =>
          gk[1][1].key = deriveKeyFromDBPath(gk[1][1].dbPath)

\* C28: for a store and a vault on the same dbPath, encryptionKey gives the
\* same 32-byte key with the vault wired in and with no vault, and never
\* fails: every encryption succeeds under the path-derived key and a password
\* encrypted with the vault decrypts to itself without it, and the reverse.
C28_VaultAndLegacyKeyAgree ==
    /\ (pwIn # <<>> /\ pwIn[1] # <<>>) =>
          /\ encrypted.err = "nil"
          /\ encrypted.ct[NonceSize + 1].key = deriveKeyFromDBPath(stDbPath)
          /\ encrypted.ct[NonceSize + 1].key.len = 32
    /\ (decOut # <<>> /\ encKeyring # stKeyring) =>
          (decOut[1].err = "nil" /\ decOut[1].pw = pwIn[1])

\* C28 witness: a password encrypted with no vault was decrypted to itself
\* with the vault wired in
C28_Witness ==
    /\ pwIn = <<<<"p", "w">>>>
    /\ encKeyring = <<>>
    /\ stKeyring # <<>>
    /\ decOut # <<>>
    /\ decOut[1].pw = <<"p", "w">>

\* the names the rule admits
WellFormedName(name) ==
    /\ Len(name) >= 1
    /\ Len(name) <= 64
    /\ name[1] \in AsciiLower \cup AsciiUpper
    /\ \A i \in 2..Len(name) :
          name[i] \in AsciiLower \cup AsciiUpper \cup AsciiDigit \cup {"-", "_"}

\* C20: validatePeerName accepts a name if and only if it has 1 to 64
\* characters, starts with an ASCII letter and continues with ASCII letters,
\* digits, hyphens and underscores; "web-1" is accepted, "1web", "", a name of
\* 65 characters and a name containing '@' are rejected.
C20_PeerNameRule ==
    vpnErr # "none" =>
        /\ vpnErr = "nil" <=> WellFormedName(peerName)
        /\ peerName = <<"w", "e", "b", "-", "1">> => vpnErr = "nil"
        /\ peerName \in {<<"1", "w", "e", "b">>, <<>>, Run(65), <<"a", "@", "b">>}
              => vpnErr # "nil"

\* C20 witness: a name of 65 letters was rejected
C20_Witness ==
    /\ peerName = Run(65)
    /\ vpnErr = ErrNameTooLong

----------------------------------------------------------------------------
(* Federation credentials: properties *)

\* the goroutines whose wrapped operation fn is executing
Executing == {g \in Goroutines : fedPc[g] = "fn"}

\* C4: all wrapped federation operations run through withPeerCredentials are
\* serialized process-wide: for any peers, with or without stored credentials,
\* at most one wrapped operation is executing at any time.
C4_OperationsSerialized == Cardinality(Executing) <= 1

\* C5: whenever no withPeerCredentials call holds the federation mutex both
\* credential variables are unset; they are set only by the holder of the
\* mutex, after it acquired it and before its deferred cleanup.
C5_EnvUnsetOutsideMutex ==
    /\ fedMu = "free" => env = <<>>
    /\ env # <<>> => /\ fedMu \in Goroutines
                     /\ fedPc[fedMu] \in {"fn", "sync", "cleanup"}
                     /\ DOMAIN env \subseteq {UserVar, PassVar}

\* C5 witness: the mutex is free after one call with credentials returned the
\* error of its wrapped operation and another returned without error
C5_Witness ==
    /\ fedMu = "free"
    /\ \E g, h \in Goroutines :
          /\ fedPc[g] = "idle" /\ fedPc[h] = "idle"
          /\ hasCredentials(fedPeer[g]) /\ hasCredentials(fedPeer[h])
          /\ fedErr[g] = "error" /\ fedErr[h] = "nil"

Zeros(n) == [i \in 1..n |-> 0]

\* C6: a call that acquired the federation mutex releases it only at the end of
\* its deferred function, with both variables already unset and the password
\* buffer wiped, whether the wrapped operation failed or not; the mutex is not
\* held by a call that has returned, every holder releases it and every caller
\* waiting for it acquires it.
C6_CleanupWipeUnlock ==
    /\ [](\A g \in Goroutines :
            /\ fedPc[g] \in {"wipe", "unlock"} => fedMu = g /\ env = <<>>
            /\ fedPc[g] = "unlock" =>
                  wipeBuf[g] = Zeros(Len(fedPeer[g][1].password))
            /\ fedPc[g] = "idle" => fedMu # g)
    /\ [][\A g \in Goroutines :
            (fedMu = g /\ fedMu' # g) => fedPc[g] = "unlock" /\ fedPc'[g] = "idle"]_vars
    /\ \A g \in Goroutines : (fedMu = g) ~> (fedMu # g)
    /\ \A g \in Goroutines : (fedPc[g] = "lock") ~> (fedMu = g)

\* C6 witness: a call whose wrapped operation failed has unset the variables
\* and wiped its password buffer and is about to release the mutex, while
\* another caller waits for it
C6_Witness ==
    \E g, h \in Goroutines :
        /\ fedPc[g] = "unlock"
        /\ fedErr[g] = "error"
        /\ fedPeer[g][1].password # <<>>
        /\ wipeBuf[g] = Zeros(Len(fedPeer[g][1].password))
        /\ fedPc[h] = "lock"

\* C31: withPeerCredentials updates the peer's LastSync exactly when the
\* wrapped operation returned no error and the lookup found the peer; after
\* a failed operation LastSync stays as it was; the result of the wrapped
\* operation is what the call returns, whatever the update did.
C31_LastSyncOnSuccess ==
    /\ [][\A g \in Goroutines :
            (fedPc[g] = "fn" /\ fedPc'[g] # "fn") =>
               /\ peers' = peers
               /\ (fedPc'[g] = "sync") <=> (fedErr'[g] = "nil" /\ fedPeer[g] # <<>>)]_vars
    /\ [][\A name \in DOMAIN peers :
            peers'[name] # peers[name] =>
               /\ peers'[name] = [peers[name] EXCEPT !.lastSync = @ + 1]
               /\ \E g \in Goroutines :
                     /\ fedPc[g] = "sync" /\ fedPc'[g] # "sync"
                     /\ fedName[g] = name
                     /\ fedErr[g] = "nil"]_vars
    /\ [][\A g \in Goroutines :
            (fedPc[g] \in {"sync", "cleanup", "wipe", "unlock"}) =>
               fedErr'[g] = fedErr[g]]_vars
    /\ [](\A g \in Goroutines :
            fedPc[g] \in {"sync", "cleanup", "wipe", "unlock"} =>
               fedErr[g] \in {"nil", "error"})

\* C31 witness: one call for a peer has returned nil with LastSync updated
\* once, and a later call for the same peer has returned the error of its
\* wrapped operation
C31_Witness ==
    \E g, h \in Goroutines :
        /\ g # h
        /\ fedPc[g] = "idle" /\ fedPc[h] = "idle"
        /\ fedName[g] = "east" /\ fedName[h] = "east"
        /\ fedErr[g] = "nil" /\ fedErr[h] = "error"
        /\ peers["east"].lastSync = 1

\* the environment a call for the looked-up peer p is to run its wrapped
\* operation in: p's username and password, a variable being unset when the
\* field is empty or there is no peer
CredentialsOf(p) ==
    IF p = <<>> THEN <<>>
    ELSE setFederationCredentials(<<>>, p[1].username, p[1].password)

\* C38: while the wrapped operation of a withPeerCredentials call for peer P
\* executes, the two credential variables hold exactly P's stored username
\* and password, unset where P's field is empty or P has no credentials or
\* does not exist, and never the credentials of another peer.
C38_EnvHoldsOwnCredentials ==
    \A g \in Goroutines : fedPc[g] = "fn" => env = CredentialsOf(fedPeer[g])

----------------------------------------------------------------------------
(* RateLimiter: properties *)

\* number of Allow(c) calls admitted with admission time in (t - windowDuration, t]
AdmittedInWindow(c, t) ==
    SumOver(admitted[c], {s \in Times : s > t - windowDuration /\ s <= t})

\* C1: for every client c and every time t, the number of Allow(c) calls that
\* returned true with admission time in the trailing interval
\* (t - windowDuration, t] never exceeds maxRequests (no Reset).
C1_SlidingWindowBound ==
    \A c \in Clients, t \in Times : AdmittedInWindow(c, t) <= maxRequests

\* the goroutines between Lock and Unlock of Allow
InCritical == {g \in Callers : allowPc[g] \in {"check", "record"}}

AdmittedAfter(c, cutoff) ==
    SumOver(admitted[c], {s \in Times : s > cutoff})

\* C3: an Allow(c) call at time now returns true when fewer than maxRequests
\* earlier calls were admitted in its window, that is after now - windowDuration
\* (the first maxRequests calls of a fresh client, and any call made once the
\* window has elapsed), and returns false when maxRequests calls were admitted
\* in that window.
C3_WindowBehaviour ==
    [][\A g \in Callers :
          (allowPc[g] \in {"check", "record"} /\ allowPc'[g] = "idle") =>
             allowRet'[g] =
                IF AdmittedAfter(allowClient[g], allowNow[g] - windowDuration)
                      < maxRequests
                THEN "true" ELSE "false"]_vars

\* C34: after Reset no client is tracked (GetStats reports active_clients = 0
\* and total_requests = 0), maxRequests and windowDuration are unchanged, and
\* the next Allow for any client is admitted when maxRequests >= 1, however
\* many requests that client made before the Reset.
C34_ResetClears ==
    /\ [](\A c \in untouched : c \notin DOMAIN requests)
    /\ [][(untouched' = Clients /\ untouched # Clients) =>
            /\ requests' = <<>>
            /\ UNCHANGED <<maxRequests, windowDuration>>]_vars
    /\ [][(statsPc = "sum" /\ statsPc' = "idle" /\ untouched = Clients) =>
            /\ statsOut'[1].active_clients = 0
            /\ statsOut'[1].total_requests = 0]_vars
    /\ [][\A g \in Callers :
            (allowPc[g] \in {"check", "record"} /\ allowPc'[g] = "idle"
                /\ allowFirst[g] /\ maxRequests >= 1) =>
               allowRet'[g] = "true"]_vars

\* C34 witness: a client that had used up its window at time 0 was admitted
\* once more at time 0, by its first Allow after a Reset, and GetStats
\* reported no client in between
C34_Witness ==
    /\ clock = 0
    /\ admitted["c1"][0] = maxRequests + 1
    /\ untouched = {"c2"}
    /\ allowPc[StatsCaller] = "idle"
    /\ allowRet[StatsCaller] = "true"
    /\ statsOut # <<>>
    /\ statsOut[1].active_clients = 0
    /\ statsOut[1].total_requests = 0

\* C35: GetStats is a read-only snapshot: active_clients is the number of
\* tracked clients, total_requests the sum of their recorded timestamps,
\* with the configured max_requests and window_duration; it changes no
\* state of the limiter; holding the shared lock it never runs in the middle
\* of an Allow, a sweep or a Reset.
C35_StatsSnapshot ==
    /\ [](statsPc \in {"count", "sum"} =>
            /\ rlReaders = 1
            /\ rlMu = "free"
            /\ InCritical = {})
    /\ [](statsPc = "idle" => rlReaders = 0)
    /\ [][(statsPc # "idle" \/ statsPc' # "idle") =>
            UNCHANGED <<requests, lastCleanup, maxRequests, windowDuration>>]_vars
    /\ [][(statsPc = "sum" /\ statsPc' = "idle") =>
            statsOut' =
               <<[active_clients |-> Cardinality(DOMAIN requests),
                  total_requests |->
                     SumOver([c \in DOMAIN requests |-> Len(requests[c].requests)],
                             DOMAIN requests),
                  max_requests |-> maxRequests,
                  window_duration |-> IF windowDuration = 1
                                      THEN <<"5", "m", "0", "s">>
                                      ELSE <<"1", "5", "m", "0", "s">>]>>]_vars

\* C35 witness: GetStats has reported two clients with three timestamps in
\* all, an Allow waiting for the lock meanwhile
C35_Witness ==
    /\ statsPc = "idle"
    /\ statsOut = <<[active_clients |-> 2, total_requests |-> 3, max_requests |-> 2,
                     window_duration |-> <<"5", "m", "0", "s">>]>>
    /\ allowPc[StatsCaller] = "lock"

\* no Allow is in progress and none will be called
Quiet == calls = MaxCalls /\ \A g \in Callers : allowPc[g] = "idle"

\* within the time modelled the ticker is still to fire later than
\* cleanupInterval after time t
TickToCome(t) == nextTick <= MaxTime /\ t + CleanupInterval < MaxTime

\* C33: with no further Allow traffic the background task keeps sweeping
\* every cleanupInterval, so a tracked client is eventually removed: every
\* tracked client for which a tick later than lastSeen + cleanupInterval is
\* still to come is removed, under fairness of the ticker and of the lock.
C33_IdleClientsRemoved ==
    \A c \in Clients :
       (/\ Quiet
        /\ c \in DOMAIN requests
        /\ TickToCome(requests[c].lastSeen))
          ~> (c \notin DOMAIN requests)

\* C33 witness: all the traffic came at time 0, and at the end of the time
\* modelled the background sweep has removed every client
C33_Witness ==
    /\ Quiet
    /\ clock = MaxTime
    /\ requests = <<>>
    /\ admitted["c1"][0] > 0
    /\ admitted["c2"][0] > 0
    /\ \A c \in Clients, t \in Times : t > 0 => admitted[c][t] = 0
    /\ lastCleanup = MaxTime
    /\ bgPc = "wait"

\* the clients a sweep at time now is to remove
Stale(now) == {c \in DOMAIN requests : requests[c].lastSeen < now - CleanupInterval}

\* C32: an Allow call at time now sweeps exactly when now - lastCleanup >
\* cleanupInterval; the sweep removes exactly the clients whose lastSeen is
\* before now - cleanupInterval, leaves the state of every other client as it
\* was and sets lastCleanup to now; an Allow call that does not sweep removes
\* no client. (The client of the call is then looked up or created, and its
\* own timestamps pruned, by the same call.)
C32_OpportunisticSweep ==
    [][\A g \in Callers :
          (allowPc[g] = "lock" /\ allowPc'[g] = "check") =>
             LET now == allowNow[g]
                 c == allowClient[g]
             IN IF now - lastCleanup > CleanupInterval
                THEN /\ lastCleanup' = now
                     /\ DOMAIN requests' = (DOMAIN requests \ Stale(now)) \cup {c}
                     /\ \A d \in DOMAIN requests' \ {c} : requests'[d] = requests[d]
                     /\ c \in Stale(now) =>
                           requests'[c] = [requests |-> <<>>, lastSeen |-> now]
                     /\ c \in DOMAIN requests \ Stale(now) =>
                           requests'[c].lastSeen = requests[c].lastSeen
                ELSE /\ lastCleanup' = lastCleanup
                     /\ DOMAIN requests' = DOMAIN requests \cup {c}
                     /\ \A d \in DOMAIN requests \ {c} : requests'[d] = requests[d]]_vars

\* C32 witness: an Allow for one client has just swept at time 2: the other
\* client, last seen at time 0, is gone, and lastCleanup is 2
C32_Witness ==
    \E g \in Callers :
        /\ allowPc[g] = "check"
        /\ allowNow[g] = 2
        /\ lastCleanup = 2
        /\ DOMAIN requests = {allowClient[g]}
        /\ admitted[CHOOSE d \in Clients : d # allowClient[g]][0] > 0
        /\ bgPc = "wait" /\ nextTick = 1

\* the recorded timestamps of client c that lie inside the window at time now
InWindow(c, now) ==
    {i \in DOMAIN requests[c].requests : requests[c].requests[i] > now - windowDuration}

\* a step that sweeps at time now leaves to every client the timestamps it
\* has inside the window
SweepSpares(now) ==
    \A c \in DOMAIN requests :
       InWindow(c, now) # {} =>
          /\ c \in DOMAIN requests'
          /\ \A i \in InWindow(c, now) :
                \E j \in DOMAIN requests'[c].requests :
                   requests'[c].requests[j] = requests[c].requests[i]

\* C37: a sweep, opportunistic or background, never removes a client that
\* still has a recorded timestamp inside the current window (newer than
\* now - windowDuration), for every configured windowDuration.
C37_SweepSparesWindow ==
    /\ [][(bgPc = "lock" /\ bgPc' = "wait") => SweepSpares(bgNow)]_vars
    /\ [][\A g \in Callers :
            (allowPc[g] = "lock" /\ allowPc'[g] = "check" /\ sweepDue(allowNow[g])) =>
               SweepSpares(allowNow[g])]_vars

----------------------------------------------------------------------------
(* DoltStore federation peers: properties *)

\* the rows that s.decryptPassword opens
Decryptable(row) ==
    decryptPassword(stKeyring, stDbPath, row.password_encrypted).err = "nil"

\* C21: after a successful AddFederationPeer(p), GetFederationPeer(p.Name)
\* returns p's RemoteURL, Username, Sovereignty and Password; an add under a
\* name already stored replaces the values, an empty password clearing the
\* stored one; no two rows carry the same name; an unknown name yields no
\* peer and no error; the stored password is ciphertext only.
C21_PeerStoreRoundTrip ==
    /\ \A n \in NamesTried :
          GetFederationPeer(federation_peers, stKeyring, stDbPath, n)
              = [peer |-> written[n], err |-> "nil"]
    /\ (fpCall.op = "add" /\ fpCall.err = "nil") =>
          /\ written[fpCall.name] = fpCall.peer
          /\ GetFederationPeer(federation_peers, stKeyring, stDbPath, fpCall.name).peer
                = fpCall.peer
    /\ (fpCall.op = "get" /\ fpCall.db = "ok") =>
          /\ fpCall.err = "nil"
          /\ fpCall.out = written[fpCall.name]
          /\ RowsNamed(federation_peers, fpCall.name) = <<>> => fpCall.out = <<>>
    /\ \A i, j \in DOMAIN federation_peers :
          federation_peers[i].name = federation_peers[j].name => i = j
    /\ \A i \in DOMAIN federation_peers :
          LET row == federation_peers[i]
              ct == row.password_encrypted
              pw == written[row.name][1].Password
          IN /\ written[row.name] # <<>>
             /\ row.remote_url = written[row.name][1].RemoteURL
             /\ row.username = written[row.name][1].Username
             /\ row.sovereignty = written[row.name][1].Sovereignty
             /\ IF pw = <<>>
                THEN ct = <<>>
                ELSE /\ Len(ct) = NonceSize + 1
                     /\ \A k \in 1..NonceSize : ct[k].kind = "byte"
                     /\ ct[NonceSize + 1].kind = "sealed"
                     /\ ct[NonceSize + 1].key = deriveKeyFromDBPath(stDbPath)

\* a peer first added with a password and the remote u2 was added again
\* without a password, a second peer being stored with one
C21_Witness ==
    /\ fpCall.op = "add"
    /\ fpCall.err = "nil"
    /\ fpCall.existed
    /\ fpCall.remote = "already exists"
    /\ fpCall.peer[1].Password = <<>>
    /\ fpCall.peer[1].RemoteURL = "u1"
    /\ remotes[fpCall.name] = <<"u2">>
    /\ Len(federation_peers) = 2
    /\ \E i \in DOMAIN federation_peers :
          federation_peers[i].password_encrypted # <<>>

\* C22: when the ciphertext of one row cannot be decrypted,
\* ListFederationPeers still returns every other peer.
C22_ListSurvivesDecryptFailure ==
    (fpCall.op = "list" /\ fpCall.db = "ok") =>
       \A i \in DOMAIN federation_peers :
          Decryptable(federation_peers[i]) =>
             \E j \in DOMAIN fpCall.out : fpCall.out[j].Name = federation_peers[i].name

\* C29: AddFederationPeer with an invalid name returns the invalid-name
\* error having done nothing else: no password encrypted, no row written or
\* updated, no remote added.
C29_InvalidNameStopsAdd ==
    /\ []((fpCall.op = "add" /\ validatePeerName(fpCall.name) # "nil") =>
             /\ fpCall.err = "invalid peer name"
             /\ fpCall.steps = <<"validatePeerName">>
             /\ RowsNamed(federation_peers, fpCall.name) = <<>>
             /\ remotes[fpCall.name] = <<>>)
    /\ [][(fpCall'.op = "add" /\ validatePeerName(fpCall'.name) # "nil") =>
             UNCHANGED <<federation_peers, remotes>>]_vars

\* an add with an invalid name was refused while the store held a peer
C29_Witness ==
    /\ fpCall.op = "add"
    /\ fpCall.name = [i \in 1..(MaxPeerNameLen + 1) |-> "a"]
    /\ fpCall.peer[1].Password # <<>>
    /\ fpCall.err = "invalid peer name"
    /\ Len(federation_peers) = 1

\* C30: RemoveFederationPeer(name) returns no error whenever the delete
\* succeeds, whether or not a row existed and whatever RemoveRemote did;
\* afterwards GetFederationPeer(name) finds no peer, and the rows of the
\* other peers are as before.
C30_RemoveBestEffort ==
    /\ []((fpCall.op = "remove" /\ fpCall.db = "ok") =>
             /\ fpCall.err = "nil"
             /\ GetFederationPeer(federation_peers, stKeyring, stDbPath, fpCall.name)
                   = [peer |-> <<>>, err |-> "nil"])
    /\ [][fpCall'.op = "remove" =>
             SelectSeq(federation_peers', LAMBDA r : r.name # fpCall'.name)
                = SelectSeq(federation_peers, LAMBDA r : r.name # fpCall'.name)]_vars

\* a peer was removed, its remote staying behind, and another peer is stored
C30_Witness ==
    /\ fpCall.op = "remove"
    /\ fpCall.db = "ok"
    /\ fpCall.remote = "failed"
    /\ fpCall.existed
    /\ remotes[fpCall.name] # <<>>
    /\ Len(federation_peers) = 1

\* C39: AddFederationPeer is all-or-nothing: whenever it returns an error the
\* table federation_peers holds exactly the rows it held before the call.
C39_AddAllOrNothing ==
    [][(fpCall'.op = "add" /\ fpCall'.err # "nil") =>
          federation_peers' = federation_peers]_vars

----------------------------------------------------------------------------
(* ValidateRequestSize: properties *)

\* C23: ValidateRequestSize rejects a request exactly when the lengths of
\* Args, Operation, Actor, Cwd and ExpectedDB add up to more than 10 MiB; a
\* total of exactly 10 MiB is accepted, and RequestID, AuthToken and
\* Signature do not count.
C23_SizeLimit ==
    szErr # "none" =>
       LET total == szReq.Args + szReq.Operation + szReq.Actor + szReq.Cwd
                       + szReq.ExpectedDB
       IN /\ (szErr # "nil") <=> (total > 10485760)
          /\ szReq.Args > 10485760 => szErr # "nil"
          /\ total = 10485760 => szErr = "nil"

\* a request of exactly 10 MiB with an oversized signature was accepted
C23_Witness ==
    /\ szErr = "nil"
    /\ szReq.Args + szReq.Operation + szReq.Actor + szReq.Cwd + szReq.ExpectedDB
          = 10485760
    /\ szReq.Operation > 0
    /\ szReq.Signature > 10485760


----------------------------------------------------------------------------
(* SecureWipe: properties *)

\* C36: after SecureWipe(b) has returned every byte of b is zero and b is as
\* long as before, whatever b was, the empty and the nil buffer included; the
\* call returns without a panic, and the bytes of the caller's memory around b
\* are as before
C36_WipeZeroesInPlace ==
    wpBefore # <<>> =>
       /\ wpErr = "returned"
       /\ Len(wpBuf.data) = Len(wpBefore[1].data)
       /\ \A i \in DOMAIN wpBuf.data : wpBuf.data[i] = 0
       /\ wpBuf.nil = wpBefore[1].nil
       /\ wpBuf.pre = wpBefore[1].pre
       /\ wpBuf.post = wpBefore[1].post

\* a slice of two non-zero bytes inside a longer array has been wiped
C36_Witness ==
    /\ wpBefore # <<>>
    /\ wpErr = "returned"
    /\ Len(wpBefore[1].data) = 2
    /\ \A i \in 1..2 : wpBefore[1].data[i] # 0
    /\ wpBefore[1].pre = <<255>>
    /\ wpBuf.data = <<0, 0>>


----------------------------------------------------------------------------
(* ValidateRequestAuth on requests submitted again: properties *)

\* C40: the verdict of ValidateRequestAuth is the same whenever one instance
\* is given the same Operation, Args, Actor, Cwd, AuthToken, Signature and
\* Timestamp: whatever the RequestID and the ExpectedDB, whatever the current
\* time and whichever requests were validated in between; so a request
\* accepted once is accepted whenever it is submitted again
C40_SameRequestSameVerdict ==
    (/\ rpFirst # <<>>
     /\ rpLast # <<>>
     /\ rpLast[1].inst = rpFirst[1].inst
     /\ Submitted(rpLast[1].req) = Submitted(rpFirst[1].req))
       => rpLast[1].err = rpFirst[1].err

\* a signed request was accepted, another client's request was validated, and
\* seconds after the time it was signed for the request is accepted again
\* under another RequestID and ExpectedDB
C40_Witness ==
    /\ rpFirst # <<>>
    /\ rpLast # <<>>
    /\ rpLast[1].inst = rpFirst[1].inst
    /\ Submitted(rpLast[1].req) = Submitted(rpFirst[1].req)
    /\ rpLast[1].req.RequestID # rpFirst[1].req.RequestID
    /\ rpLast[1].req.ExpectedDB # rpFirst[1].req.ExpectedDB
    /\ rpFirst[1].req.Operation = OpList
    /\ rpFirst[1].req.Timestamp = 1
    /\ rpFirst[1].req.Signature # EmptySignature
    /\ rpFirst[1].now <= 1
    /\ rpLast[1].now > 1
    /\ rpOther
    /\ rpFirst[1].err = ErrNil
    /\ rpLast[1].err = ErrNil

====
